---------------------------- MODULE Spec2Model ----------------------------
(***************************************************************************)
(* State-machine model of the portal frontend pages: the streaming chat    *)
(* page (Chatpod), the Oracle NLQ page with its client-side presets, the   *)
(* tacit-knowledge registration and approval pages, the login page with    *)
(* the application's authentication guard, the JSON tool page, the         *)
(* education demo, the license checker, the clothing advice page, and the  *)
(* result table, CSV export and case feedback of the query and search      *)
(* pages.                                                                  *)
(*                                                                         *)
(* Text is modelled as a sequence of tokens (one token is one character or *)
(* one indivisible lexical unit such as the "data:" field name). React     *)
(* state is modelled by one variable per useState/useRef cell; every event *)
(* handler and every continuation of an await is one action.               *)
(***************************************************************************)
EXTENDS Integers, Sequences, FiniteSets, TLC

VARIABLES
    \* ---- Chatpod (src/unnamed/part_002) ----
    sessionId,      \* useState sessionId; 0 models null
    messages,       \* useState messages: sequence of [role, content, by]
    input,          \* useState input (token sequence)
    streaming,      \* useState streaming
    abortRef,       \* abortRef.current: number of the send() call whose controller it holds, 0 = null
    sends,          \* the send() calls that are suspended at an await
    lastSend,       \* the send() call that returned most recently (history)
    nSends,         \* number of send() calls that passed the guard so far
    sessionReqs,    \* POST /api/session requests in flight
    uploads,        \* the uploadFiles() calls made so far, running or ended
    chatWork,       \* user requests and server events the run may still hold (model budget)
    \* ---- OracleNlqPage, queries (src/unnamed/part_001) ----
    question,       \* useState question (token sequence)
    sql,            \* useState sql
    columns,        \* useState columns
    rows,           \* useState rows
    nlqError,       \* useState error; "" models null
    nlqLoading,     \* useState loading
    autoRunPreset,  \* useState autoRunPreset
    nlqReqs,        \* runQuery calls suspended at their await: set of [id, q]
    nQueries,       \* runQuery calls so far
    lastQuery,      \* the question of the most recent runQuery call (history)
    \* ---- OracleNlqPage, presets (src/unnamed/part_001) ----
    presets,            \* useState presets
    lsPresets,          \* localStorage["oracle_nlq_presets_v2"]; <<>> models no entry
    nlqMounted,         \* the page is mounted and its mount effect has run
    nlqCrashed,         \* rendering threw: React has unmounted the page
    editPreset,         \* useState editPreset; NoItem models null
    isEditModalOpen,    \* useState isEditModalOpen
    isImportModalOpen,  \* useState isImportModalOpen
    dragIndexRef,       \* dragIndexRef.current + 1; 0 models null
    fileReads,          \* texts of the FileReaders whose onload is pending
    lastWriteOk,        \* no setItem has thrown since the list was last loaded or saved (history)
    presetsBefore,      \* the list shown and stored when the page was reloaded (history)
    presetWork,         \* operations the user may still start (model budget)
    \* ---- TroubleSearch (src/frontend/src/pages/TroubleSearch.tsx) ----
    query,              \* useState query
    tsLoading,          \* useState loading
    results,            \* useState results
    tsError,            \* useState error; "" models null
    tacitModalOpen,     \* useState tacitModalOpen
    tacitTarget,        \* useState tacitTarget; NoRecord models null
    tacitNote,          \* useState tacitNote
    tacitCategory,      \* useState tacitCategory
    tacitAuthor,        \* useState tacitAuthor
    tsSearches,         \* GET /api/trouble/search requests in flight
    tacitReqs,          \* POST /api/trouble/tacit requests in flight
    tacitPosted,        \* every body posted to /api/trouble/tacit, in order (history)
    tsAlert,            \* the text of the last alert(); "" when none was shown
    tsWork,             \* requests the page may still send (model budget)
    \* ---- TacitApproval (src/unnamed/part_000) and the notes on the server ----
    records,            \* useState records
    taLoading,          \* useState loading
    taError,            \* useState error; "" models null
    taMounted,          \* the mount effect has run
    taFetches,          \* GET /api/trouble/tacit/list requests in flight
    taApproves,         \* POST /api/trouble/tacit/approve requests in flight
    taNotes,            \* the server's notes: row id -> status and approver
    taIssued,           \* the number of list requests issued so far (history)
    taShown,            \* the list request whose result is displayed; 0 for none (history)
    taLatestOk,         \* the most recently issued list request that succeeded (history)
    taRefetched,        \* rows whose refetch after approval has succeeded (history)
    taAlert,            \* the text of the last alert(); "" when none was shown
    taWork,             \* requests the user may still cause (model budget)
    \* ---- Login (pages/Login.tsx) and the App layout (pages/Profile.tsx) ----
    route,              \* location.pathname
    locFrom,            \* location.state?.from?.pathname; "none" when absent
    wanted,             \* the page whose opening sent the user to /login; "none" (history)
    lsToken,            \* localStorage["token"]; "" models no entry
    lsEmployeeId,       \* localStorage["employeeId"]; "" models no entry
    lsUserName,         \* localStorage["userName"]; "" models no entry
    userId,             \* useState userId
    password,           \* useState password
    submitting,         \* useState submitting
    loginError,         \* useState error; "" models null
    loginReqs,          \* POST auth/login requests in flight
    loginEvent,         \* what the last step was (history)
    loginWork,          \* login requests the run may still send (model budget)
    \* ---- FileJsonPage (src/unnamed/part_001, from line 699) ----
    draft,              \* useState draft
    currentJson,        \* useState currentJson
    currentText,        \* useState currentText
    diffText,           \* useState diffText
    generateBusy,       \* useState generateBusy
    editorFocused,      \* the editor textarea has the focus
    fjReqs,             \* requests in flight: /api/generate, /api/diff, /api/excel/render
    fjSent,             \* what was sent as the current JSON, in order (history)
    lastValid,          \* the last value set from valid text or from the draft (history)
    fjEvent,            \* what the last step was (history)
    fjWork,             \* requests the page may still send (model budget)
    \* ---- EduDemo (src/frontend/src/pages/EduDemo.tsx) ----
    scenario,           \* useState scenario
    eduMessages,        \* useState messages
    step,               \* useState step
    playing,            \* useState playing
    paused,             \* useState paused
    spinnerStep,        \* useState spinnerStep; -1 models null
    speedLabel,         \* useState speedLabel
    intervalMs,         \* useState intervalMs
    eduTimer,           \* the timeout the playback effect has set; NoTimer when none
    effectPending,      \* a render changed the effect's dependencies; it has not run yet
    scenarioReq,        \* the GET /api/scenario of the mount effect is in flight
    \* ---- LicenseCheckerPage (src/unnamed/part_003, src/frontend/src/api/license.ts) ----
    softwareName,       \* useState softwareName
    licenseText,        \* useState licenseText
    usageType,          \* useState usageType
    phase,              \* useState phase
    summaryRes,         \* useState summaryRes; NoSummary models null
    judgeRes,           \* useState judgeRes; NoJudge models null
    licError,           \* useState error; "" models null
    licReq,             \* the request runCheck is awaiting; NoLicReq when none
    licLog,             \* requests sent by the current run, in order (history)
    \* ---- ResultTable (src/unnamed/part_001 14-200) ----
    tableMounted,       \* the page renders ResultTable (rows.length > 0)
    tableRows,          \* prop rows
    pageSize,           \* useState pageSize
    page,               \* useState page
    filterText,         \* useState q (token sequence)
    \* ---- exportCsv (src/unnamed/part_001 363-390) ----
    csvColumns,         \* useState columns of the page: column names (token sequences)
    csvRows,            \* useState rows of the page: each row the cells of the columns
    csvOut,             \* content of the last Blob given to the download; NoCsv when none
    csvAlert,           \* the last exportCsv call ended in the alert
    \* ---- TroubleSearch feedback (src/frontend/src/pages/TroubleSearch.tsx 80-99, 360-378) ----
    feedbackBody,       \* body of the most recent POST /api/trouble/feedback (history)
    fbInput,            \* what window.prompt returned for that feedback (history)
    fbReqs,             \* feedback requests in flight
    fbAlert,            \* the last alert of sendFeedback; "" when none
    \* ---- ClothingPage (src/unnamed/part_004) ----
    destination,        \* useState destination
    wx,                 \* useState wx; NoWx models null
    wxLoading,          \* useState wxLoading
    wxError,            \* useState wxError; "" models null
    adviceQuick,        \* useState adviceQuick; NoAdvice models ""
    adviceFull,         \* useState adviceFull; NoAdvice models ""
    adviceLoading,      \* useState adviceLoading
    wxReq,              \* the request runWeather is awaiting; NoWxReq when none
    fullReq,            \* the request runAdviceFull is awaiting; NoWxReq when none
    wxRuns              \* number of runWeather calls so far

chatVars == <<sessionId, messages, input, streaming, abortRef, sends, lastSend,
              nSends, sessionReqs, uploads, chatWork>>

nlqVars == <<question, sql, columns, rows, nlqError, nlqLoading, autoRunPreset,
             nlqReqs, nQueries, lastQuery>>

presetVars == <<presets, lsPresets, nlqMounted, nlqCrashed, editPreset, isEditModalOpen,
                isImportModalOpen, dragIndexRef, fileReads, lastWriteOk, presetsBefore,
                presetWork>>

tsVars == <<query, tsLoading, results, tsError, tacitModalOpen, tacitTarget, tacitNote,
            tacitCategory, tacitAuthor, tsSearches, tacitReqs, tacitPosted, tsAlert, tsWork>>

taVars == <<records, taLoading, taError, taMounted, taFetches, taApproves, taNotes, taIssued,
            taShown, taLatestOk, taRefetched, taAlert, taWork>>

loginVars == <<route, locFrom, wanted, lsToken, lsEmployeeId, lsUserName, userId, password,
               submitting, loginError, loginReqs, loginEvent, loginWork>>

fjVars == <<draft, currentJson, currentText, diffText, generateBusy, editorFocused, fjReqs,
            fjSent, lastValid, fjEvent, fjWork>>

eduVars == <<scenario, eduMessages, step, playing, paused, spinnerStep, speedLabel,
             intervalMs, eduTimer, effectPending, scenarioReq>>

licVars == <<softwareName, licenseText, usageType, phase, summaryRes, judgeRes, licError,
             licReq, licLog>>

tableVars == <<tableMounted, tableRows, pageSize, page, filterText>>

csvVars == <<csvColumns, csvRows, csvOut, csvAlert>>

fbVars == <<feedbackBody, fbInput, fbReqs, fbAlert>>

clothVars == <<destination, wx, wxLoading, wxError, adviceQuick, adviceFull, adviceLoading,
               wxReq, fullReq, wxRuns>>

vars == <<chatVars, nlqVars, presetVars, tsVars, taVars, loginVars, fjVars, eduVars, licVars,
          tableVars, csvVars, fbVars, clothVars>>

-----------------------------------------------------------------------------
(* Bounds of the model *)

\* Chatpod: the number of send() calls, clearHistory clicks, uploaded files
\* and stream events of one run
MaxChatWork == 3

\* OracleNlqPage: the number of runQuery calls of one run
MaxQueries == 3

\* OracleNlqPage: the number of preset operations the user starts in one run
MaxPresetWork == 2

\* TroubleSearch: the number of requests the page sends in one run
MaxTsWork == 2

\* TacitApproval: the number of requests the user causes after the page's first
\* fetch (a reload is one, an approval with its refetch two)
MaxTaWork == 3

\* Login: the number of login requests of one run
MaxLoginWork == 2

\* FileJsonPage: the number of requests the page sends in one run
MaxJsonWork == 2

-----------------------------------------------------------------------------
(* Generic helpers on token sequences *)

Front(s) == SubSeq(s, 1, Len(s) - 1)

Last(s) == s[Len(s)]

IsPrefix(s, t) == Len(s) <= Len(t) /\ SubSeq(t, 1, Len(s)) = s

RECURSIVE Flatten(_)
Flatten(ss) == IF ss = <<>> THEN <<>> ELSE Head(ss) \o Flatten(Tail(ss))

RECURSIVE SeqsUpTo(_, _)
SeqsUpTo(S, n) ==
    IF n = 0 THEN {<<>>}
    ELSE LET shorter == SeqsUpTo(S, n - 1)
         IN  shorter \cup {Append(s, x) : s \in shorter, x \in S}

IsSpace(c) == c \in {"SP", "NL"}

\* String.prototype.trim: strips white space at both ends
RECURSIVE TrimLeft(_)
TrimLeft(s) == IF s # <<>> /\ IsSpace(Head(s)) THEN TrimLeft(Tail(s)) ELSE s

RECURSIVE TrimRight(_)
TrimRight(s) == IF s # <<>> /\ IsSpace(Last(s)) THEN TrimRight(Front(s)) ELSE s

Trim(s) == TrimRight(TrimLeft(s))

-----------------------------------------------------------------------------
(* Chatpod: the response stream and its reader (part_002, send) *)

\* The kinds of event the server writes into the response body, and the bytes
\* of each. "C3" "A9" are the two UTF-8 bytes of one character (decoded: "E9").
\*   a    : data: {"choices":[{"delta":{"content":"a"}}]}\n\n
\*   e9   : the same with a two-byte character as content
\*   err  : data:{"error":"x"}\n\n
\*   done : data: [DONE]\n\n
\*   cmt  : a part that is no data field
\*   cut  : a data line ended by a single newline (the event goes on, or the
\*          stream ends inside it)
\*   bad  : data:x\n\n, a payload that is not JSON
EventKinds == {"a", "e9", "err", "done", "cmt", "cut", "bad"}

EventBytes(k) ==
    CASE k = "a"    -> <<"data:", "SP", "{d", "a", "}", "NL", "NL">>
      [] k = "e9"   -> <<"data:", "{d", "C3", "A9", "}", "NL", "NL">>
      [] k = "err"  -> <<"data:", "{e", "x", "}", "NL", "NL">>
      [] k = "done" -> <<"data:", "SP", "[DONE]", "NL", "NL">>
      [] k = "cmt"  -> <<":cmt", "NL", "NL">>
      [] k = "cut"  -> <<"data:", "{d", "b", "}", "NL">>
      [] k = "bad"  -> <<"data:", "x", "NL", "NL">>

RECURSIVE StreamBytes(_)
StreamBytes(ks) == IF ks = <<>> THEN <<>> ELSE EventBytes(Head(ks)) \o StreamBytes(Tail(ks))

\* TextDecoder.decode(value, {stream: true}): an incomplete character at the
\* end of the chunk is kept in the decoder until the next call.
RECURSIVE DecodeFrom(_, _, _)
DecodeFrom(pending, bytes, out) ==
    IF bytes = <<>> THEN [out |-> out, pending |-> pending]
    ELSE LET b == Head(bytes) IN
         IF pending # <<>>
         THEN IF b = "A9"
              THEN DecodeFrom(<<>>, Tail(bytes), Append(out, "E9"))
              ELSE DecodeFrom(<<>>, bytes, Append(out, "FFFD"))
         ELSE IF b = "C3" THEN DecodeFrom(<<b>>, Tail(bytes), out)
         ELSE IF b = "A9" THEN DecodeFrom(<<>>, Tail(bytes), Append(out, "FFFD"))
         ELSE DecodeFrom(<<>>, Tail(bytes), Append(out, b))

\* A decoder that is flushed at the end of every chunk (decode without stream)
DecodeNoStream(pending, bytes) ==
    LET r == DecodeFrom(<<>>, bytes, <<>>)
    IN  IF r.pending = <<>> THEN r
        ELSE [out |-> Append(r.out, "FFFD"), pending |-> <<>>]

Decode(pending, bytes) == DecodeFrom(pending, bytes, <<>>)

\* buffer.split("\n\n"): the pieces between non-overlapping delimiters, the
\* last piece being the text after the last delimiter
RECURSIVE SplitFrom(_, _, _)
SplitFrom(s, cur, acc) ==
    IF s = <<>> THEN Append(acc, cur)
    ELSE IF Len(s) >= 2 /\ s[1] = "NL" /\ s[2] = "NL"
         THEN SplitFrom(SubSeq(s, 3, Len(s)), <<>>, Append(acc, cur))
         ELSE SplitFrom(Tail(s), Append(cur, Head(s)), acc)

Split(s) == SplitFrom(s, <<>>, <<>>)

\* parts.pop() ?? "" dropped, so that every chunk is split on its own
NextBufferDropped(pieces) == <<>>

\* buffer = parts.pop() ?? ""
NextBuffer(pieces) == Last(pieces)

\* Characters that may stand inside a JSON string of the model
TextChars == {"a", "b", "x", "E9", "FFFD", "SP"}

IsJsonObject(data, open) ==
    /\ Len(data) >= 2
    /\ Head(data) = open
    /\ Last(data) = "}"
    /\ \A j \in 2..(Len(data) - 1) : data[j] \in TextChars

JsonText(data) == SubSeq(data, 2, Len(data) - 1)

\* One pass of the for loop body over part p, up to the decision what to do:
\* [kind, text] with kind "skip" (no data field), "done", "bad" (JSON.parse
\* throws), "error" (json.error is truthy), "delta" (non-empty delta.content)
\* or "none" (valid JSON that carries neither).
ParseEvent(p) ==
    IF ~(p # <<>> /\ Head(p) = "data:") THEN [kind |-> "skip", text |-> <<>>]
    ELSE LET data == Trim(Tail(p)) IN
         IF data = <<"[DONE]">> THEN [kind |-> "done", text |-> <<>>]
         ELSE IF IsJsonObject(data, "{e")
              THEN IF JsonText(data) # <<>>
                   THEN [kind |-> "error", text |-> JsonText(data)]
                   ELSE [kind |-> "none", text |-> <<>>]
         ELSE IF IsJsonObject(data, "{d")
              THEN IF JsonText(data) # <<>>
                   THEN [kind |-> "delta", text |-> JsonText(data)]
                   ELSE [kind |-> "none", text |-> <<>>]
         ELSE [kind |-> "bad", text |-> <<>>]

\* The delta written in front of the content instead of behind it
AppendDeltaInFront(prev, aiIndex, delta) ==
    IF aiIndex \notin DOMAIN prev THEN prev
    ELSE [prev EXCEPT ![aiIndex].content = delta \o @]

\* setMessages updater of a delta event
AppendDelta(prev, aiIndex, delta) ==
    IF aiIndex \notin DOMAIN prev THEN prev
    ELSE [prev EXCEPT ![aiIndex].content = @ \o delta]

\* setMessages updater of an error event
AppendError(prev, aiIndex, err) ==
    IF aiIndex \notin DOMAIN prev THEN prev
    ELSE [prev EXCEPT ![aiIndex].content =
             (IF @ # <<>> THEN Append(@, "NL") ELSE <<>>) \o <<"[error] ">> \o err]

ApplyEvent(prev, aiIndex, p) ==
    LET ev == ParseEvent(p) IN
    CASE ev.kind = "error" -> AppendError(prev, aiIndex, ev.text)
      [] ev.kind = "delta" -> AppendDelta(prev, aiIndex, ev.text)
      [] OTHER -> prev

\* A loop that a part with unparsable JSON ends
RECURSIVE ApplyPartsUntilBad(_, _, _)
ApplyPartsUntilBad(prev, aiIndex, parts) ==
    IF parts = <<>> \/ ParseEvent(Head(parts)).kind = "bad" THEN prev
    ELSE ApplyPartsUntilBad(ApplyEvent(prev, aiIndex, Head(parts)), aiIndex, Tail(parts))

RECURSIVE ApplyParts(_, _, _)
ApplyParts(prev, aiIndex, parts) ==
    IF parts = <<>> THEN prev
    ELSE ApplyParts(ApplyEvent(prev, aiIndex, Head(parts)), aiIndex, Tail(parts))

-----------------------------------------------------------------------------
(* Chatpod: state and handlers (part_002) *)

\* What the user may have in the input box
Inputs == {<<>>, <<"SP">>, <<"q", "SP">>}

NoSend == [id |-> 0, how |-> "none"]

ChatInit ==
    /\ sessionId = 0
    /\ messages = <<>>
    /\ input = <<>>
    /\ streaming = FALSE
    /\ abortRef = 0
    /\ sends = {}
    /\ lastSend = NoSend
    /\ nSends = 0
    /\ sessionReqs = 1          \* the mount effect has called createNewSession()
    /\ uploads = {}
    /\ chatWork = MaxChatWork

\* clearHistory button (enabled when a session exists and nothing streams)
ClearHistory ==
    /\ sessionId # 0
    /\ ~streaming
    /\ chatWork > 0
    /\ chatWork' = chatWork - 1
    /\ sessionReqs' = sessionReqs + 1
    /\ UNCHANGED <<sessionId, messages, input, streaming, abortRef, sends, lastSend,
                   nSends, uploads>>

\* createNewSession after its fetch resolved with an OK response carrying
\* session_id sid
CreateSessionOk(sid) ==
    /\ sessionReqs > 0
    /\ sessionReqs' = sessionReqs - 1
    /\ sessionId' = sid
    /\ messages' = <<>>
    /\ input' = <<>>
    /\ UNCHANGED <<streaming, abortRef, sends, lastSend, nSends, uploads, chatWork>>

\* createNewSession after a response that is not OK, or a network error
CreateSessionFailed ==
    /\ sessionReqs > 0
    /\ sessionReqs' = sessionReqs - 1
    /\ UNCHANGED <<sessionId, messages, input, streaming, abortRef, sends, lastSend,
                   nSends, uploads, chatWork>>

\* textarea onChange
SetInput(text) ==
    /\ input # text
    /\ input' = text
    /\ UNCHANGED <<sessionId, messages, streaming, abortRef, sends, lastSend, nSends,
                   sessionReqs, uploads, chatWork>>

\* The guard of send() without the test of the streaming flag
SendGuardNoStreaming == Trim(input) # <<>> /\ sessionId # 0

\* if (!input.trim() || streaming || !sessionId) return;
SendGuard == Trim(input) # <<>> /\ ~streaming /\ sessionId # 0

\* send(), up to its await of fetch
Send ==
    /\ SendGuard
    /\ chatWork > 0
    /\ chatWork' = chatWork - 1
    /\ LET id == nSends + 1
           nextMessages == messages \o
               << [role |-> "user", content |-> Trim(input), by |-> 0],
                  [role |-> "assistant", content |-> <<>>, by |-> id] >>
       IN  /\ messages' = nextMessages
           /\ sends' = sends \cup
                 {[id |-> id, how |-> "fetch", aiIndex |-> Len(nextMessages),
                   consumed |-> <<>>, rest |-> <<>>, buffer |-> <<>>,
                   pending |-> <<>>, seen |-> <<>>]}
           /\ abortRef' = id
           /\ nSends' = id
    /\ input' = <<>>
    /\ streaming' = TRUE
    /\ UNCHANGED <<sessionId, lastSend, sessionReqs, uploads>>

\* The call returns: its finally block runs
Return(s, how) ==
    /\ sends' = sends \ {s}
    /\ lastSend' = [id |-> s.id, how |-> how]
    /\ streaming' = FALSE

\* fetch rejected, or the response is not OK or has no body
FetchFailed(s) ==
    /\ s \in sends
    /\ s.how = "fetch"
    /\ Return(s, "failed")
    /\ UNCHANGED <<sessionId, messages, input, abortRef, nSends, sessionReqs,
                   uploads, chatWork>>

\* fetch resolved with an OK response whose body will carry the events ks
FetchOk(s, ks) ==
    /\ s \in sends
    /\ s.how = "fetch"
    /\ Len(ks) <= chatWork
    /\ chatWork' = chatWork - Len(ks)
    /\ sends' = (sends \ {s}) \cup {[s EXCEPT !.how = "read", !.rest = StreamBytes(ks)]}
    /\ UNCHANGED <<sessionId, messages, input, streaming, abortRef, lastSend, nSends,
                   sessionReqs, uploads>>

\* reader.read() resolved with a chunk of n bytes: one pass of the while loop
ReadChunk(s, n) ==
    /\ s \in sends
    /\ s.how = "read"
    /\ n \in 1..Len(s.rest)
    /\ LET value == SubSeq(s.rest, 1, n)
           dec == Decode(s.pending, value)
           pieces == Split(s.buffer \o dec.out)
           parts == Front(pieces)
       IN  /\ messages' = ApplyParts(messages, s.aiIndex, parts)
           /\ sends' = (sends \ {s}) \cup
                 {[s EXCEPT !.rest = SubSeq(s.rest, n + 1, Len(s.rest)),
                            !.consumed = s.consumed \o value,
                            !.pending = dec.pending,
                            !.buffer = NextBuffer(pieces),
                            !.seen = s.seen \o parts]}
    /\ UNCHANGED <<sessionId, input, streaming, abortRef, lastSend, nSends,
                   sessionReqs, uploads, chatWork>>

\* reader.read() resolved with done
ReadDone(s) ==
    /\ s \in sends
    /\ s.how = "read"
    /\ s.rest = <<>>
    /\ Return(s, "eof")
    /\ UNCHANGED <<sessionId, messages, input, abortRef, nSends, sessionReqs,
                   uploads, chatWork>>

\* reader.read() rejected: the connection broke
ReadFailed(s) ==
    /\ s \in sends
    /\ s.how = "read"
    /\ Return(s, "error")
    /\ UNCHANGED <<sessionId, messages, input, abortRef, nSends, sessionReqs,
                   uploads, chatWork>>

\* stop button (enabled while streaming). abort() rejects the pending fetch or
\* read of the call that owns the controller; its catch and finally blocks run
\* as microtasks before any other handler.
Stop ==
    /\ streaming
    /\ streaming' = FALSE
    /\ IF \E s \in sends : s.id = abortRef
       THEN LET s == CHOOSE t \in sends : t.id = abortRef
            IN  /\ sends' = sends \ {s}
                /\ lastSend' = [id |-> s.id, how |-> "abort"]
       ELSE UNCHANGED <<sends, lastSend>>
    /\ UNCHANGED <<sessionId, messages, input, abortRef, nSends, sessionReqs,
                   uploads, chatWork>>

\* Names of the files the user gives, in the order given over one run
FileNames == <<"f1", "f2", "f3", "f4", "f5">>

\* infoLine of an answer that carries the file name only (97-101)
InfoMessage(f) == [role |-> "assistant", content |-> <<"info", f>>, by |-> 0]

\* A loop that goes on with the file after the next one
NextFileSkipping(u) == u.pos + 2

\* for (const f of targetFiles): the file after the one just answered
NextFile(u) == u.pos + 1

\* handleDrop / handleFileInputChange with n files, and uploadFiles up to its
\* first fetch (67-82, 132-154); without a session uploadFiles returns at once.
\* A call is [id, sid, files, pos, results]: pos is the index of the file whose
\* request is in flight (Len(files) + 1 when the loop has ended), results the
\* outcomes of the requests answered so far (history).
StartUpload(n) ==
    /\ n <= chatWork
    /\ chatWork' = chatWork - n
    /\ uploads' =
          IF sessionId = 0 THEN uploads
          ELSE uploads \cup
                 {[id |-> Cardinality(uploads) + 1,
                   sid |-> sessionId,
                   files |-> [i \in 1..n |-> FileNames[MaxChatWork - chatWork + i]],
                   pos |-> 1,
                   results |-> <<>>]}
    /\ UNCHANGED <<sessionId, messages, input, streaming, abortRef, sends, lastSend,
                   nSends, sessionReqs>>

\* The loop of call u after the answer to its request, with outcome r
Answered(u, r) ==
    uploads' = (uploads \ {u}) \cup {[u EXCEPT !.pos = NextFile(u), !.results = Append(@, r)]}

\* one pass of the uploadFiles loop whose response is OK (89-111)
UploadOk(u) ==
    /\ u \in uploads
    /\ u.pos <= Len(u.files)
    /\ Answered(u, "ok")
    /\ messages' = Append(messages, InfoMessage(u.files[u.pos]))
    /\ UNCHANGED <<sessionId, input, streaming, abortRef, sends, lastSend, nSends,
                   sessionReqs, chatWork>>

\* one pass of the uploadFiles loop whose response is not OK or whose fetch
\* rejects ("failed"), or whose OK response has no JSON body ("no-json")
UploadFailed(u, r) ==
    /\ u \in uploads
    /\ u.pos <= Len(u.files)
    /\ Answered(u, r)
    /\ UNCHANGED <<sessionId, messages, input, streaming, abortRef, sends, lastSend,
                   nSends, sessionReqs, chatWork>>

ChatNext ==
    \/ ClearHistory
    \/ \E sid \in {1} : CreateSessionOk(sid)
    \/ CreateSessionFailed
    \/ \E text \in Inputs : SetInput(text)
    \/ Send
    \/ \E s \in sends : FetchFailed(s)
    \/ \E s \in {t \in sends : t.how = "fetch"} :
           \E ks \in SeqsUpTo(EventKinds, chatWork) : FetchOk(s, ks)
    \/ \E s \in {t \in sends : t.how = "read"} :
           \E n \in 1..Len(s.rest) : ReadChunk(s, n)
    \/ \E s \in sends : ReadDone(s)
    \/ \E s \in sends : ReadFailed(s)
    \/ Stop
    \/ \E n \in 1..chatWork : StartUpload(n)
    \/ \E u \in uploads : UploadOk(u)
    \/ \E u \in uploads : \E r \in {"failed", "no-json"} : UploadFailed(u, r)

-----------------------------------------------------------------------------
(* Chatpod: properties *)

\* The calls that are reading their response body
Reading == {s \in sends : s.how = "read"}

\* The indexes at which the placeholder created by call id stands
PlaceholderAt(msgs, id) == {i \in DOMAIN msgs : msgs[i].by = id}

PlaceholderContent(msgs, id) == msgs[CHOOSE i \in PlaceholderAt(msgs, id) : TRUE].content

\* The delta.content strings of the parts, concatenated in order
RECURSIVE DeltasOf(_)
DeltasOf(parts) ==
    IF parts = <<>> THEN <<>>
    ELSE LET ev == ParseEvent(Head(parts))
         IN  (IF ev.kind = "delta" THEN ev.text ELSE <<>>) \o DeltasOf(Tail(parts))

\* The delta.content strings and the "[error] ..." lines of the parts, in
\* order, an error line being preceded by a newline unless it comes first
RECURSIVE TextsFrom(_, _)
TextsFrom(acc, parts) ==
    IF parts = <<>> THEN acc
    ELSE LET ev == ParseEvent(Head(parts))
             next == CASE ev.kind = "delta" -> acc \o ev.text
                       [] ev.kind = "error" ->
                            (IF acc = <<>> THEN <<>> ELSE Append(acc, "NL"))
                                \o <<"[error] ">> \o ev.text
                       [] OTHER -> acc
         IN  TextsFrom(next, Tail(parts))

TextsOf(parts) == TextsFrom(<<>>, parts)

\* C1 as stated: while a call reads its response, the content of its
\* placeholder is the concatenation, in arrival order, of the delta.content
\* strings of the data events processed so far.
C1_DeltasOnly ==
    \A s \in Reading :
        \A i \in PlaceholderAt(messages, s.id) :
            messages[i].content = DeltasOf(s.seen)

\* C1 (amended): while a call reads its response, its placeholder, as long as
\* it is in the list, stands at aiIndex and its content is the concatenation,
\* in arrival order, of the delta.content strings and the "[error] ..." lines
\* of the events processed so far; and the content of a placeholder only ever
\* grows at its end.
C1_AppendsInArrivalOrder ==
    /\ [](\A s \in Reading :
            \A i \in PlaceholderAt(messages, s.id) :
                i = s.aiIndex /\ messages[i].content = TextsOf(s.seen))
    /\ [][\A id \in 1..nSends :
            (PlaceholderAt(messages, id) # {} /\ PlaceholderAt(messages', id) # {})
                => IsPrefix(PlaceholderContent(messages, id),
                            PlaceholderContent(messages', id))]_vars

\* C1 witness: a call that reads has appended a delta and then an error line
C1_Witness ==
    \E s \in Reading :
        /\ PlaceholderAt(messages, s.id) # {}
        /\ PlaceholderContent(messages, s.id) = <<"a", "NL", "[error] ", "x">>

\* C2: the reader's state after any sequence of chunks depends only on the
\* bytes received, not on where the chunks were cut: the parts processed are
\* exactly the delimited parts of the decoded bytes, each once and in order,
\* the buffer is the text after the last delimiter, and the placeholder holds
\* the text of exactly these parts (so the final text is the same for every
\* chunking of the stream).
C2_ChunkIndependent ==
    \A s \in Reading :
        LET text == Decode(<<>>, s.consumed)
            pieces == Split(text.out)
        IN  /\ s.seen = Front(pieces)
            /\ s.buffer = Last(pieces)
            /\ s.pending = text.pending
            /\ \A i \in PlaceholderAt(messages, s.id) :
                   messages[i].content = TextsOf(Front(pieces))

\* C2 witness: after an event was processed, a chunk ended between the two
\* newlines of the next delimiter, the unfinished event waiting in the buffer
C2_Witness ==
    \E s \in Reading :
        /\ s.seen # <<>>
        /\ PlaceholderAt(messages, s.id) # {}
        /\ PlaceholderContent(messages, s.id) # <<>>
        /\ Len(s.buffer) >= 2
        /\ Last(s.buffer) = "NL"
        /\ s.rest # <<>>
        /\ Head(s.rest) = "NL"

\* C3: send() passes its guard only with a non-blank input, no response
\* streaming and a session; at most one call of send() is fetching or reading
\* at any time, and the streaming flag is true whenever one is.
C3_Sequential ==
    /\ [](Cardinality(sends) <= 1 /\ (sends # {} => streaming))
    /\ [][nSends' # nSends =>
            (Trim(input) # <<>> /\ ~streaming /\ sessionId # 0)]_vars

\* C3 witness: a response is read by a call made after stop() ended the
\* previous one
C3_Witness ==
    /\ lastSend.how = "abort"
    /\ \E s \in Reading : s.id = lastSend.id + 1 /\ s.seen # <<>>

-----------------------------------------------------------------------------
(* OracleNlqPage: queries (part_001, 198-263, 405-431) *)

DEFAULT_PRESETS ==
    << [k |-> "obj", id |-> "p_day_runtime",   title |-> <<"t1">>, question |-> <<"pq1">>],
       [k |-> "obj", id |-> "p_recent_orders", title |-> <<"t2">>, question |-> <<"pq2">>],
       [k |-> "obj", id |-> "p_monthly_sales", title |-> <<"t3">>, question |-> <<"pq3">>] >>

\* What the user may type into the question box
Questions == {<<>>, <<"SP">>, <<"q1">>}

\* The response body of the server for question q
ResultFor(q) == [sql |-> <<"select">> \o q, columns |-> <<"col">> \o q, rows |-> <<"row">> \o q]

NlqInit ==
    /\ question = <<>>
    /\ sql = <<>>
    /\ columns = <<>>
    /\ rows = <<>>
    /\ nlqError = ""
    /\ nlqLoading = FALSE
    /\ autoRunPreset = FALSE
    /\ nlqReqs = {}
    /\ nQueries = 0
    /\ lastQuery = <<>>

\* question input onChange
SetQuestion(q) ==
    /\ question # q
    /\ question' = q
    /\ UNCHANGED <<sql, columns, rows, nlqError, nlqLoading, autoRunPreset, nlqReqs,
                   nQueries, lastQuery>>

\* auto-run checkbox onChange
SetAutoRunPreset(b) ==
    /\ autoRunPreset # b
    /\ autoRunPreset' = b
    /\ UNCHANGED <<question, sql, columns, rows, nlqError, nlqLoading, nlqReqs,
                   nQueries, lastQuery>>

\* runQuery(q) up to its await
RunQuery(q) ==
    /\ nQueries < MaxQueries
    /\ nlqError' = ""
    /\ sql' = <<>>
    /\ rows' = <<>>
    /\ columns' = <<>>
    /\ nlqLoading' = TRUE
    /\ nQueries' = nQueries + 1
    /\ nlqReqs' = nlqReqs \cup {[id |-> nQueries + 1, q |-> q]}
    /\ lastQuery' = q

\* if (autoRunPreset) void runQuery(p.question)
PresetMayRun == autoRunPreset

\* execute button: disabled={loading || !question.trim()}
Execute ==
    /\ ~nlqLoading
    /\ Trim(question) # <<>>
    /\ RunQuery(question)
    /\ UNCHANGED <<question, autoRunPreset>>

\* handlePresetClick(p)
PresetClick(p) ==
    /\ question' = p.question
    /\ IF PresetMayRun
       THEN RunQuery(p.question)
       ELSE UNCHANGED <<sql, columns, rows, nlqError, nlqLoading, nlqReqs, nQueries, lastQuery>>
    /\ UNCHANGED autoRunPreset

\* runQuery after queryOracleNlq resolved
QueryOk(r) ==
    /\ r \in nlqReqs
    /\ nlqReqs' = nlqReqs \ {r}
    /\ sql' = ResultFor(r.q).sql
    /\ columns' = ResultFor(r.q).columns
    /\ rows' = ResultFor(r.q).rows
    /\ nlqLoading' = FALSE
    /\ UNCHANGED <<question, nlqError, autoRunPreset, nQueries, lastQuery>>

\* runQuery after queryOracleNlq rejected
QueryFailed(r) ==
    /\ r \in nlqReqs
    /\ nlqReqs' = nlqReqs \ {r}
    /\ nlqError' = "API error"
    /\ nlqLoading' = FALSE
    /\ UNCHANGED <<question, sql, columns, rows, autoRunPreset, nQueries, lastQuery>>

-----------------------------------------------------------------------------
(* OracleNlqPage: presets and their persistence (part_001, 208-240, 265-360) *)

\* An element of a preset list: a JSON object with the three fields (a missing
\* field is the empty text), JSON null, or JavaScript undefined
Item(id, title, q) == [k |-> "obj", id |-> id, title |-> title, question |-> q]

NullItem == [k |-> "null", id |-> "", title |-> <<>>, question |-> <<>>]

Undefined == [k |-> "undefined", id |-> "", title |-> <<>>, question |-> <<>>]

NoItem == [k |-> "none", id |-> "", title |-> <<>>, question |-> <<>>]

\* JSON text: a sequence of tokens; an element of an array is one token
Tok(k) == [k |-> k, p |-> NoItem]

ItemTok(p) == [k |-> "item", p |-> p]

\* JSON.stringify of a preset list (undefined elements are written as null)
Stringify(list) ==
    <<Tok("[")>>
        \o [i \in DOMAIN list |-> ItemTok(IF list[i].k = "undefined" THEN NullItem ELSE list[i])]
        \o <<Tok("]")>>

RECURSIVE StripLeft(_)
StripLeft(t) == IF t # <<>> /\ Head(t).k = "SP" THEN StripLeft(Tail(t)) ELSE t

RECURSIVE StripRight(_)
StripRight(t) == IF t # <<>> /\ Last(t).k = "SP" THEN StripRight(Front(t)) ELSE t

\* text.trim()
Strip(t) == StripRight(StripLeft(t))

\* JSON.parse(text): [ok] is false when it throws; [array] tells whether the
\* value is an array, [items] are its elements
ParseJson(text) ==
    LET t == Strip(text) IN
    IF /\ Len(t) >= 2
       /\ Head(t).k = "["
       /\ Last(t).k = "]"
       /\ \A i \in 2..(Len(t) - 1) : t[i].k = "item"
    THEN [ok |-> TRUE, array |-> TRUE, items |-> [i \in 1..(Len(t) - 2) |-> t[i + 1].p]]
    ELSE IF t = <<Tok("{}")>>
         THEN [ok |-> TRUE, array |-> FALSE, items |-> <<>>]
         ELSE [ok |-> FALSE, array |-> FALSE, items |-> <<>>]

\* The texts a user may paste or import
ImportTexts ==
    { <<Tok("SP")>>,
      Stringify(<<Item("i1", <<"t7">>, <<"pq7">>)>>),
      Stringify(<<Item("i2", <<>>, <<"pq8">>)>>),
      Stringify(<<NullItem>>),
      <<Tok("{}")>>,
      <<Tok("["), ItemTok(Item("i1", <<"t7">>, <<"pq7">>))>> }

\* What the user may type into the fields of the edit modal
EditTitles == {<<"SP">>, <<"t9">>}

EditQuestions == {<<"pq9">>}

\* Rendering presets.map((p) => ... p.id ...) throws for null and undefined
RenderThrows(list) == \E i \in DOMAIN list : list[i].k # "obj"

PresetInit ==
    /\ presets = <<>>
    /\ lsPresets = <<>>
    /\ nlqMounted = FALSE
    /\ nlqCrashed = FALSE
    /\ editPreset = NoItem
    /\ isEditModalOpen = FALSE
    /\ isImportModalOpen = FALSE
    /\ dragIndexRef = 0
    /\ fileReads = {}
    /\ lastWriteOk = TRUE
    /\ presetsBefore = [known |-> FALSE, list |-> <<>>]
    /\ presetWork = MaxPresetWork

\* The state of the list after it was set to `list` and rendered
Shown(list) ==
    /\ presets' = list
    /\ nlqCrashed' = RenderThrows(list)

\* savePresets that stores the list of the previous render
SavePresetsStale(next, ok) ==
    /\ Shown(next)
    /\ lsPresets' = IF ok THEN Stringify(presets) ELSE lsPresets
    /\ lastWriteOk' = ok

\* savePresets(next); ok is false when localStorage.setItem throws
SavePresets(next, ok) ==
    /\ Shown(next)
    /\ lsPresets' = IF ok THEN Stringify(next) ELSE lsPresets
    /\ lastWriteOk' = ok

\* The page can take user input
Live == nlqMounted /\ ~nlqCrashed

\* The mount effect (220-231)
PresetsMount(ok) ==
    /\ ~nlqMounted
    /\ ~nlqCrashed
    /\ nlqMounted' = TRUE
    /\ IF lsPresets # <<>>
       THEN /\ Shown(IF ParseJson(lsPresets).ok THEN ParseJson(lsPresets).items
                     ELSE DEFAULT_PRESETS)
            /\ lastWriteOk' = TRUE
            /\ UNCHANGED lsPresets
       ELSE /\ Shown(DEFAULT_PRESETS)
            /\ lsPresets' = IF ok THEN Stringify(DEFAULT_PRESETS) ELSE lsPresets
            /\ lastWriteOk' = ok
    /\ UNCHANGED <<editPreset, isEditModalOpen, isImportModalOpen, dragIndexRef, fileReads,
                   presetsBefore, presetWork>>

\* The browser reloads the page: the component state is rebuilt, pending file
\* reads are dropped, localStorage stays
PresetsReload ==
    /\ nlqMounted
    /\ nlqMounted' = FALSE
    /\ nlqCrashed' = FALSE
    /\ presetsBefore' = IF Live /\ lastWriteOk
                        THEN [known |-> TRUE, list |-> presets]
                        ELSE [known |-> FALSE, list |-> <<>>]
    /\ presets' = <<>>
    /\ editPreset' = NoItem
    /\ isEditModalOpen' = FALSE
    /\ isImportModalOpen' = FALSE
    /\ dragIndexRef' = 0
    /\ fileReads' = {}
    /\ UNCHANGED <<lsPresets, lastWriteOk, presetWork>>

\* handleAddPreset: the id is `p_${Date.now()}`
HandleAddPreset(id) ==
    /\ Live
    /\ presetWork > 0
    /\ presetWork' = presetWork - 1
    /\ editPreset' = Item(id, <<>>, <<>>)
    /\ isEditModalOpen' = TRUE
    /\ UNCHANGED <<presets, lsPresets, nlqMounted, nlqCrashed, isImportModalOpen,
                   dragIndexRef, fileReads, lastWriteOk, presetsBefore>>

\* handleEditPreset(p)
HandleEditPreset(p) ==
    /\ Live
    /\ presetWork > 0
    /\ presetWork' = presetWork - 1
    /\ editPreset' = p
    /\ isEditModalOpen' = TRUE
    /\ UNCHANGED <<presets, lsPresets, nlqMounted, nlqCrashed, isImportModalOpen,
                   dragIndexRef, fileReads, lastWriteOk, presetsBefore>>

\* edit modal: title input onChange
SetEditTitle(t) ==
    /\ Live /\ isEditModalOpen /\ editPreset # NoItem
    /\ editPreset.title # t
    /\ editPreset' = [editPreset EXCEPT !.title = t]
    /\ UNCHANGED <<presets, lsPresets, nlqMounted, nlqCrashed, isEditModalOpen,
                   isImportModalOpen, dragIndexRef, fileReads, lastWriteOk, presetsBefore,
                   presetWork>>

\* edit modal: question textarea onChange
SetEditQuestion(q) ==
    /\ Live /\ isEditModalOpen /\ editPreset # NoItem
    /\ editPreset.question # q
    /\ editPreset' = [editPreset EXCEPT !.question = q]
    /\ UNCHANGED <<presets, lsPresets, nlqMounted, nlqCrashed, isEditModalOpen,
                   isImportModalOpen, dragIndexRef, fileReads, lastWriteOk, presetsBefore,
                   presetWork>>

\* edit modal: cancel button
CancelEdit ==
    /\ Live /\ isEditModalOpen
    /\ isEditModalOpen' = FALSE
    /\ editPreset' = NoItem
    /\ UNCHANGED <<presets, lsPresets, nlqMounted, nlqCrashed, isImportModalOpen,
                   dragIndexRef, fileReads, lastWriteOk, presetsBefore, presetWork>>

\* handleSaveEditPreset(p): the new list
SavedList(p) ==
    IF \E i \in DOMAIN presets : presets[i].id = p.id
    THEN [i \in DOMAIN presets |-> IF presets[i].id = p.id THEN p ELSE presets[i]]
    ELSE <<p>> \o presets

\* edit modal: save button (598-606) and handleSaveEditPreset
SaveEdit(ok) ==
    /\ Live /\ isEditModalOpen /\ editPreset # NoItem
    /\ Trim(editPreset.title) # <<>>
    /\ Trim(editPreset.question) # <<>>
    /\ SavePresets(SavedList(editPreset), ok)
    /\ isEditModalOpen' = FALSE
    /\ editPreset' = NoItem
    /\ UNCHANGED <<nlqMounted, isImportModalOpen, dragIndexRef, fileReads, presetsBefore, presetWork>>

\* presets.filter((p) => p.id !== id)
RECURSIVE Without(_, _)
Without(list, id) ==
    IF list = <<>> THEN <<>>
    ELSE (IF Head(list).id = id THEN <<>> ELSE <<Head(list)>>) \o Without(Tail(list), id)

\* handleDeletePreset(id), the confirm dialog answered with OK
HandleDeletePreset(id, ok) ==
    /\ Live
    /\ presetWork > 0
    /\ presetWork' = presetWork - 1
    /\ SavePresets(Without(presets, id), ok)
    /\ UNCHANGED <<nlqMounted, editPreset, isEditModalOpen, isImportModalOpen,
                   dragIndexRef, fileReads, presetsBefore>>

\* onDragStart(e, index)
OnDragStart(i) ==
    /\ Live
    /\ presetWork > 0
    /\ presetWork' = presetWork - 1
    /\ i \in DOMAIN presets
    /\ dragIndexRef # i
    /\ dragIndexRef' = i
    /\ UNCHANGED <<presets, lsPresets, nlqMounted, nlqCrashed, editPreset, isEditModalOpen,
                   isImportModalOpen, fileReads, lastWriteOk, presetsBefore>>

\* next.splice(from, 1) followed by next.splice(index, 0, item), positions
\* counted from 1; a from beyond the end removes nothing and yields undefined
Moved(list, from, index) ==
    LET item == IF from \in DOMAIN list THEN list[from] ELSE Undefined
        rest == IF from \in DOMAIN list
                THEN SubSeq(list, 1, from - 1) \o SubSeq(list, from + 1, Len(list))
                ELSE list
        at == IF index - 1 > Len(rest) THEN Len(rest) ELSE index - 1
    IN  SubSeq(rest, 1, at) \o <<item>> \o SubSeq(rest, at + 1, Len(rest))

\* onDrop(e, index)
OnDrop(i, ok) ==
    /\ Live
    /\ i \in DOMAIN presets
    /\ dragIndexRef # 0
    /\ dragIndexRef # i
    /\ SavePresets(Moved(presets, dragIndexRef, i), ok)
    /\ dragIndexRef' = 0
    /\ UNCHANGED <<nlqMounted, editPreset, isEditModalOpen, isImportModalOpen, fileReads,
                   presetsBefore, presetWork>>

\* import/export button and the close buttons of the import modal
SetImportModalOpen(b) ==
    /\ Live
    /\ isImportModalOpen # b
    /\ isImportModalOpen' = b
    /\ b => presetWork > 0
    /\ presetWork' = IF b THEN presetWork - 1 ELSE presetWork
    /\ UNCHANGED <<presets, lsPresets, nlqMounted, nlqCrashed, editPreset, isEditModalOpen,
                   dragIndexRef, fileReads, lastWriteOk, presetsBefore>>

\* for (const p of parsed) if (!p.id || !p.title || !p.question) throw
\* (reading a field of null throws as well)
AllWellFormed(items) ==
    \A i \in DOMAIN items :
        /\ items[i].k = "obj"
        /\ items[i].id # ""
        /\ items[i].title # <<>>
        /\ items[i].question # <<>>

\* import modal: overwrite button (667-676) and importPresetsFromText
ImportPresetsFromText(text, ok) ==
    /\ Live /\ isImportModalOpen
    /\ Strip(text) # <<>>
    /\ LET parsed == ParseJson(text) IN
       IF parsed.ok /\ parsed.array /\ AllWellFormed(parsed.items)
       THEN /\ SavePresets(parsed.items, ok)
            /\ isImportModalOpen' = FALSE
       ELSE UNCHANGED <<presets, lsPresets, nlqCrashed, lastWriteOk, isImportModalOpen>>
    /\ UNCHANGED <<nlqMounted, editPreset, isEditModalOpen, dragIndexRef, fileReads,
                   presetsBefore, presetWork>>

\* import modal: merge button (677-686) and importPresetsMerge
ImportPresetsMerge(text, ok) ==
    /\ Live /\ isImportModalOpen
    /\ Strip(text) # <<>>
    /\ LET parsed == ParseJson(text) IN
       IF parsed.ok /\ parsed.array
       THEN /\ SavePresets(parsed.items \o presets, ok)
            /\ isImportModalOpen' = FALSE
       ELSE UNCHANGED <<presets, lsPresets, nlqCrashed, lastWriteOk, isImportModalOpen>>
    /\ UNCHANGED <<nlqMounted, editPreset, isEditModalOpen, dragIndexRef, fileReads,
                   presetsBefore, presetWork>>

\* file input onChange (442-446): handleImportFile(f, false) up to readAsText
HandleImportFile(text) ==
    /\ Live
    /\ presetWork > 0
    /\ presetWork' = presetWork - 1
    /\ fileReads' = fileReads \cup {text}
    /\ UNCHANGED <<presets, lsPresets, nlqMounted, nlqCrashed, editPreset, isEditModalOpen,
                   isImportModalOpen, dragIndexRef, lastWriteOk, presetsBefore>>

\* reader.onload of handleImportFile(file, false)
FileLoaded(text, ok) ==
    /\ Live
    /\ text \in fileReads
    /\ fileReads' = fileReads \ {text}
    /\ LET parsed == ParseJson(text) IN
       IF parsed.ok /\ parsed.array
       THEN SavePresets(parsed.items, ok)
       ELSE UNCHANGED <<presets, lsPresets, nlqCrashed, lastWriteOk>>
    /\ UNCHANGED <<nlqMounted, editPreset, isEditModalOpen, isImportModalOpen,
                   dragIndexRef, presetsBefore, presetWork>>

PresetNext ==
    \/ \E ok \in BOOLEAN : PresetsMount(ok)
    \/ PresetsReload
    \/ \E id \in {"p_new"} : HandleAddPreset(id)
    \/ \E i \in DOMAIN presets : HandleEditPreset(presets[i])
    \/ \E t \in EditTitles : SetEditTitle(t)
    \/ \E q \in EditQuestions : SetEditQuestion(q)
    \/ CancelEdit
    \/ \E ok \in BOOLEAN : SaveEdit(ok)
    \/ \E i \in DOMAIN presets : \E ok \in BOOLEAN : HandleDeletePreset(presets[i].id, ok)
    \/ \E i \in DOMAIN presets : OnDragStart(i)
    \/ \E i \in DOMAIN presets : \E ok \in BOOLEAN : OnDrop(i, ok)
    \/ \E b \in BOOLEAN : SetImportModalOpen(b)
    \/ \E text \in ImportTexts : \E ok \in BOOLEAN : ImportPresetsFromText(text, ok)
    \/ \E text \in ImportTexts : \E ok \in BOOLEAN : ImportPresetsMerge(text, ok)
    \/ \E text \in ImportTexts : HandleImportFile(text)
    \/ \E text \in fileReads : \E ok \in BOOLEAN : FileLoaded(text, ok)

\* C5: while the page is mounted and no localStorage write has failed, the text
\* stored under "oracle_nlq_presets_v2" is the JSON of the in-memory preset
\* list; a reload of a rendered page brings back the same presets in the same
\* order; and a first mount with nothing stored shows the default presets and,
\* its write succeeding, stores them.
C5_PersistedAndRestored ==
    /\ [](nlqMounted /\ lastWriteOk => lsPresets = Stringify(presets))
    /\ [][(~nlqMounted /\ nlqMounted' /\ presetsBefore.known)
              => presets' = presetsBefore.list]_vars
    /\ [][(~nlqMounted /\ nlqMounted' /\ lsPresets = <<>>)
              => /\ presets' = DEFAULT_PRESETS
                 /\ lastWriteOk' => lsPresets' = Stringify(DEFAULT_PRESETS)]_vars

\* C5 witness: a reload has restored a list that a merge import extended and a
\* drag reordered
C5_Witness ==
    /\ Live
    /\ presetsBefore.known
    /\ presets = presetsBefore.list
    /\ lsPresets = Stringify(presets)
    /\ Len(presets) = 4
    /\ presets[1].id = "p_monthly_sales"
    /\ presets[2].id = "i1"

\* The query part of the page together with the mount effect that loads the
\* presets its buttons show
NlqNext ==
    \/ /\ \E ok \in BOOLEAN : PresetsMount(ok)
       /\ UNCHANGED nlqVars
    \/ /\ Live
       /\ \/ \E q \in Questions : SetQuestion(q)
          \/ \E b \in BOOLEAN : SetAutoRunPreset(b)
          \/ Execute
          \/ \E i \in DOMAIN presets : PresetClick(presets[i])
       /\ UNCHANGED presetVars
    \/ /\ \/ \E r \in nlqReqs : QueryOk(r)
          \/ \E r \in nlqReqs : QueryFailed(r)
       /\ UNCHANGED presetVars

\* C4 as stated: at most one runQuery request is in flight at a time, and
\* whenever none is in flight the SQL, columns and rows displayed are those
\* returned for the most recently issued question, or empty with an error.
C4_Sequential ==
    /\ Cardinality(nlqReqs) <= 1
    /\ (nlqReqs = {} /\ nQueries > 0) =>
          \/ /\ sql = ResultFor(lastQuery).sql
             /\ columns = ResultFor(lastQuery).columns
             /\ rows = ResultFor(lastQuery).rows
          \/ /\ sql = <<>> /\ columns = <<>> /\ rows = <<>>
             /\ nlqError # ""

-----------------------------------------------------------------------------
(* TroubleSearch: search and tacit-knowledge registration                  *)
(* (src/frontend/src/pages/TroubleSearch.tsx)                              *)

\* The records a search may return; id "null" models a record without id
TroubleRecords ==
    << [id |-> "r1", internal_index |-> "1"], [id |-> "null", internal_index |-> "2"] >>

NoRecord == [id |-> "none", internal_index |-> "none"]

\* What the user may type into the search box and the modal's fields
Queries == {<<>>, <<"k">>}

Notes == {<<>>, <<"SP">>, <<"SP", "n">>}

Categories == {"", "cat"}

Authors == {"", "me"}

\* rec.id ?? rec.internal_index
CaseId(rec) == IF rec.id # "null" THEN rec.id ELSE rec.internal_index

\* v || null
OrNull(v) == IF v = "" THEN "null" ELSE v

\* The body submitTacit posts, with the note approved at once
TacitBodyApproved ==
    [ case_id  |-> CaseId(tacitTarget),
      note     |-> tacitNote,
      category |-> OrNull(tacitCategory),
      author   |-> OrNull(tacitAuthor),
      approver |-> OrNull(tacitAuthor),
      status   |-> "approved" ]

\* The body submitTacit posts (115-123)
TacitBody ==
    [ case_id  |-> CaseId(tacitTarget),
      note     |-> tacitNote,
      category |-> OrNull(tacitCategory),
      author   |-> OrNull(tacitAuthor),
      approver |-> "null",
      status   |-> "pending" ]

TsInit ==
    /\ query = <<>>
    /\ tsLoading = FALSE
    /\ results = <<>>
    /\ tsError = ""
    /\ tacitModalOpen = FALSE
    /\ tacitTarget = NoRecord
    /\ tacitNote = <<>>
    /\ tacitCategory = ""
    /\ tacitAuthor = ""
    /\ tsSearches = {}
    /\ tacitReqs = {}
    /\ tacitPosted = <<>>
    /\ tsAlert = ""
    /\ tsWork = MaxTsWork

\* The modal covers the page while it is shown (390-391)
ModalShown == tacitModalOpen /\ tacitTarget # NoRecord

\* search box onChange
SetQuery(q) ==
    /\ ~ModalShown
    /\ query # q
    /\ query' = q
    /\ UNCHANGED <<tsLoading, results, tsError, tacitModalOpen, tacitTarget, tacitNote,
                   tacitCategory, tacitAuthor, tsSearches, tacitReqs, tacitPosted, tsAlert,
                   tsWork>>

\* handleSearch up to its await; the button is disabled while loading
HandleSearch ==
    /\ ~ModalShown
    /\ ~tsLoading
    /\ IF Trim(query) = <<>>
       THEN /\ tsError' = "enter keyword"
            /\ UNCHANGED <<tsLoading, tsSearches, tsWork>>
       ELSE /\ tsWork > 0
            /\ tsWork' = tsWork - 1
            /\ tsError' = ""
            /\ tsLoading' = TRUE
            /\ tsSearches' = tsSearches \cup {MaxTsWork - tsWork + 1}
    /\ UNCHANGED <<query, results, tacitModalOpen, tacitTarget, tacitNote, tacitCategory,
                   tacitAuthor, tacitReqs, tacitPosted, tsAlert>>

\* handleSearch after axios.get resolved: setResults(res.data.results ?? [])
SearchOk(r, found) ==
    /\ r \in tsSearches
    /\ tsSearches' = tsSearches \ {r}
    /\ results' = found
    /\ tsLoading' = FALSE
    /\ UNCHANGED <<query, tsError, tacitModalOpen, tacitTarget, tacitNote, tacitCategory,
                   tacitAuthor, tacitReqs, tacitPosted, tsAlert, tsWork>>

\* handleSearch after axios.get rejected
SearchFailed(r) ==
    /\ r \in tsSearches
    /\ tsSearches' = tsSearches \ {r}
    /\ tsError' = "search failed"
    /\ tsLoading' = FALSE
    /\ UNCHANGED <<query, results, tacitModalOpen, tacitTarget, tacitNote, tacitCategory,
                   tacitAuthor, tacitReqs, tacitPosted, tsAlert, tsWork>>

\* openTacitModal(rec)
OpenTacitModal(rec) ==
    /\ ~ModalShown
    /\ tacitTarget' = rec
    /\ tacitNote' = <<>>
    /\ tacitCategory' = ""
    /\ tacitAuthor' = ""
    /\ tacitModalOpen' = TRUE
    /\ UNCHANGED <<query, tsLoading, results, tsError, tsSearches, tacitReqs, tacitPosted,
                   tsAlert, tsWork>>

\* the modal's close and cancel buttons
CloseTacitModal ==
    /\ ModalShown
    /\ tacitModalOpen' = FALSE
    /\ UNCHANGED <<query, tsLoading, results, tsError, tacitTarget, tacitNote, tacitCategory,
                   tacitAuthor, tsSearches, tacitReqs, tacitPosted, tsAlert, tsWork>>

\* the modal's note textarea onChange
SetTacitNote(n) ==
    /\ ModalShown
    /\ tacitNote # n
    /\ tacitNote' = n
    /\ UNCHANGED <<query, tsLoading, results, tsError, tacitModalOpen, tacitTarget,
                   tacitCategory, tacitAuthor, tsSearches, tacitReqs, tacitPosted, tsAlert,
                   tsWork>>

\* the modal's category input onChange
SetTacitCategory(c) ==
    /\ ModalShown
    /\ tacitCategory # c
    /\ tacitCategory' = c
    /\ UNCHANGED <<query, tsLoading, results, tsError, tacitModalOpen, tacitTarget, tacitNote,
                   tacitAuthor, tsSearches, tacitReqs, tacitPosted, tsAlert, tsWork>>

\* the modal's author input onChange
SetTacitAuthor(a) ==
    /\ ModalShown
    /\ tacitAuthor # a
    /\ tacitAuthor' = a
    /\ UNCHANGED <<query, tsLoading, results, tsError, tacitModalOpen, tacitTarget, tacitNote,
                   tacitCategory, tsSearches, tacitReqs, tacitPosted, tsAlert, tsWork>>

\* submitTacit that does not look at the note
TacitMaySubmitAnyNote == tacitTarget # NoRecord

\* The two early returns of submitTacit passed (110-114)
TacitMaySubmit == tacitTarget # NoRecord /\ Trim(tacitNote) # <<>>

\* submitTacit up to its await; the register button is part of the modal
SubmitTacit ==
    /\ ModalShown
    /\ IF TacitMaySubmit
       THEN /\ tsWork > 0
            /\ tsWork' = tsWork - 1
            /\ tacitReqs' = tacitReqs \cup {MaxTsWork - tsWork + 1}
            /\ tacitPosted' = Append(tacitPosted, TacitBody)
            /\ UNCHANGED tsAlert
       ELSE /\ tsAlert' = IF tacitTarget = NoRecord THEN tsAlert ELSE "enter note"
            /\ UNCHANGED <<tsWork, tacitReqs, tacitPosted>>
    /\ UNCHANGED <<query, tsLoading, results, tsError, tacitModalOpen, tacitTarget, tacitNote,
                   tacitCategory, tacitAuthor, tsSearches>>

\* submitTacit after axios.post resolved
TacitOk(r) ==
    /\ r \in tacitReqs
    /\ tacitReqs' = tacitReqs \ {r}
    /\ tsAlert' = "registered"
    /\ tacitModalOpen' = FALSE
    /\ UNCHANGED <<query, tsLoading, results, tsError, tacitTarget, tacitNote, tacitCategory,
                   tacitAuthor, tsSearches, tacitPosted, tsWork>>

\* submitTacit after axios.post rejected
TacitFailed(r) ==
    /\ r \in tacitReqs
    /\ tacitReqs' = tacitReqs \ {r}
    /\ tsAlert' = "register failed"
    /\ UNCHANGED <<query, tsLoading, results, tsError, tacitModalOpen, tacitTarget, tacitNote,
                   tacitCategory, tacitAuthor, tsSearches, tacitPosted, tsWork>>

TsNext ==
    \/ \E q \in Queries : SetQuery(q)
    \/ HandleSearch
    \/ \E r \in tsSearches : \E found \in {<<>>, TroubleRecords} : SearchOk(r, found)
    \/ \E r \in tsSearches : SearchFailed(r)
    \/ \E i \in DOMAIN results : OpenTacitModal(results[i])
    \/ CloseTacitModal
    \/ \E n \in Notes : SetTacitNote(n)
    \/ \E c \in Categories : SetTacitCategory(c)
    \/ \E a \in Authors : SetTacitAuthor(a)
    \/ SubmitTacit
    \/ \E r \in tacitReqs : TacitOk(r)
    \/ \E r \in tacitReqs : TacitFailed(r)

\* C6: submitTacit posts only while a target record is selected and the note
\* has a non-blank character; the posted body carries that record's id, the
\* note as typed, status "pending" and approver null; no posted body ever has
\* another status or an approver.
C6_PostsPendingOnly ==
    /\ [](\A i \in DOMAIN tacitPosted :
              /\ tacitPosted[i].status = "pending"
              /\ tacitPosted[i].approver = "null"
              /\ Trim(tacitPosted[i].note) # <<>>)
    /\ [][tacitPosted' # tacitPosted
              => /\ tacitTarget # NoRecord
                 /\ Trim(tacitNote) # <<>>
                 /\ tacitPosted' = Append(tacitPosted,
                        [ case_id |-> CaseId(tacitTarget), note |-> tacitNote,
                          category |-> OrNull(tacitCategory),
                          author |-> OrNull(tacitAuthor),
                          approver |-> "null", status |-> "pending" ])]_vars

\* C6 witness: a note was posted for the record without id, and a submit with
\* a blank note was turned away
C6_Witness ==
    /\ Len(tacitPosted) = 1
    /\ tacitPosted[1].case_id = "2"
    /\ tacitPosted[1].author = "me"
    /\ tacitNote = <<"SP">>
    /\ tsAlert = "enter note"

-----------------------------------------------------------------------------
(* TacitApproval: the approval page (src/unnamed/part_000) and the notes    *)
(* kept by the server behind /api/trouble/tacit                             *)

\* The row ids of the notes on the server
Rows == <<1, 2>>

\* What the user may answer to the approver prompt
Approvers == {<<"SP">>, <<"boss">>}

\* A list request the server has not answered yet
Unserved == <<[id |-> 0]>>

\* GET /api/trouble/tacit/list?status=pending on the server
PendingNotes ==
    LET F[i \in 0..Len(Rows)] ==
            IF i = 0 THEN <<>>
            ELSE IF taNotes[Rows[i]].status = "pending"
                 THEN Append(F[i - 1], [id |-> Rows[i]])
                 ELSE F[i - 1]
    IN  F[Len(Rows)]

\* approver && approver.trim().length > 0 ? approver : null
ApproverOrNull(a) == IF Trim(a) # <<>> THEN a ELSE <<"null">>

TaInit ==
    /\ records = <<>>
    /\ taLoading = FALSE
    /\ taError = ""
    /\ taMounted = FALSE
    /\ taFetches = {}
    /\ taApproves = {}
    /\ taNotes = [r \in {Rows[i] : i \in DOMAIN Rows} |->
                    [status |-> "pending", approver |-> <<"null">>]]
    /\ taIssued = 0
    /\ taShown = 0
    /\ taLatestOk = 0
    /\ taRefetched = {}
    /\ taAlert = ""
    /\ taWork = MaxTaWork

\* fetchPending up to its await; `row` is the row whose approval it follows,
\* 0 when it follows none
FetchPending(row) ==
    /\ taLoading' = TRUE
    /\ taError' = ""
    /\ taIssued' = taIssued + 1
    /\ taFetches' = taFetches \cup {[id |-> taIssued + 1, row |-> row, list |-> Unserved]}

\* useEffect(() => { fetchPending(); }, [])
TaMount ==
    /\ ~taMounted
    /\ taMounted' = TRUE
    /\ FetchPending(0)
    /\ UNCHANGED <<records, taApproves, taNotes, taShown, taLatestOk, taRefetched, taAlert,
                   taWork>>

\* reload button: onClick={fetchPending} disabled={loading}
TaReload ==
    /\ taMounted
    /\ ~taLoading
    /\ taWork >= 1
    /\ taWork' = taWork - 1
    /\ FetchPending(0)
    /\ UNCHANGED <<records, taMounted, taApproves, taNotes, taShown, taLatestOk,
                   taRefetched, taAlert>>

\* the server answers a list request
ServeList(f) ==
    /\ f \in taFetches
    /\ f.list = Unserved
    /\ taFetches' = (taFetches \ {f}) \cup {[f EXCEPT !.list = PendingNotes]}
    /\ UNCHANGED <<records, taLoading, taError, taMounted, taApproves, taNotes, taIssued,
                   taShown, taLatestOk, taRefetched, taAlert, taWork>>

\* fetchPending after axios.get resolved: setRecords(res.data.results ?? [])
FetchPendingOk(f) ==
    /\ f \in taFetches
    /\ f.list # Unserved
    /\ taFetches' = taFetches \ {f}
    /\ records' = f.list
    /\ taLoading' = FALSE
    /\ taShown' = f.id
    /\ taLatestOk' = IF f.id > taLatestOk THEN f.id ELSE taLatestOk
    /\ taRefetched' = IF f.row # 0 THEN taRefetched \cup {f.row} ELSE taRefetched
    /\ UNCHANGED <<taError, taMounted, taApproves, taNotes, taIssued, taAlert, taWork>>

\* fetchPending after axios.get rejected
FetchPendingFailed(f) ==
    /\ f \in taFetches
    /\ taFetches' = taFetches \ {f}
    /\ taError' = "fetch failed"
    /\ taLoading' = FALSE
    /\ UNCHANGED <<records, taMounted, taApproves, taNotes, taIssued, taShown, taLatestOk,
                   taRefetched, taAlert, taWork>>

\* approveOne(rec) up to its await; the approve buttons are never disabled
ApproveOne(rec, answer) ==
    /\ taMounted
    /\ taWork >= 2
    /\ taWork' = taWork - 2
    /\ taApproves' = taApproves \cup
          {[n |-> MaxTaWork - taWork + 1, row_id |-> rec.id,
            approver |-> ApproverOrNull(answer), served |-> FALSE]}
    /\ UNCHANGED <<records, taLoading, taError, taMounted, taFetches, taNotes, taIssued,
                   taShown, taLatestOk, taRefetched, taAlert>>

\* the server handles an approve request
ServeApprove(a) ==
    /\ a \in taApproves
    /\ ~a.served
    /\ taApproves' = (taApproves \ {a}) \cup {[a EXCEPT !.served = TRUE]}
    /\ taNotes' = [taNotes EXCEPT ![a.row_id] =
                      [status |-> "approved", approver |-> a.approver]]
    /\ UNCHANGED <<records, taLoading, taError, taMounted, taFetches, taIssued, taShown,
                   taLatestOk, taRefetched, taAlert, taWork>>

\* approveOne after axios.post resolved: await fetchPending()
ApproveOk(a) ==
    /\ a \in taApproves
    /\ a.served
    /\ taApproves' = taApproves \ {a}
    /\ FetchPending(a.row_id)
    /\ UNCHANGED <<records, taMounted, taNotes, taShown, taLatestOk, taRefetched, taAlert,
                   taWork>>

\* approveOne after axios.post rejected
ApproveFailed(a) ==
    /\ a \in taApproves
    /\ taApproves' = taApproves \ {a}
    /\ taAlert' = "approve failed"
    /\ UNCHANGED <<records, taLoading, taError, taMounted, taFetches, taNotes, taIssued,
                   taShown, taLatestOk, taRefetched, taWork>>

TaNext ==
    \/ TaMount
    \/ TaReload
    \/ \E f \in taFetches : ServeList(f)
    \/ \E f \in taFetches : FetchPendingOk(f)
    \/ \E f \in taFetches : FetchPendingFailed(f)
    \/ \E i \in DOMAIN records : \E answer \in Approvers : ApproveOne(records[i], answer)
    \/ \E a \in taApproves : ServeApprove(a)
    \/ \E a \in taApproves : ApproveOk(a)
    \/ \E a \in taApproves : ApproveFailed(a)

\* The row ids of the displayed records
Displayed == {records[i].id : i \in DOMAIN records}

\* C7 as stated: a record whose approval succeeded and whose refetch has
\* completed with a list is not in the displayed list, and the displayed list
\* is the result of the latest list request that succeeded.
C7_ApprovedLeavesList ==
    /\ \A row \in taRefetched : row \notin Displayed
    /\ taShown = taLatestOk

-----------------------------------------------------------------------------
(* Login (src/frontend/src/pages/Login.tsx) and the App layout with its     *)
(* auth guard and logout (src/frontend/src/pages/Profile.tsx)              *)

\* The pages below the App layout a user may open
AppPages == {"/dashboard", "/chatpod"}

\* What the user may type into the two inputs
UserIds == {"", "u1"}

Passwords == {"", "pw"}

\* The responses to POST auth/login: status 0 models a rejected fetch, json
\* tells whether the body parses, user whether data.user is present,
\* employee_id and name are "" when the field is absent
Resp(status, json, user, eid, name) ==
    [status |-> status, json |-> json, token |-> "tok", user |-> user,
     employee_id |-> eid, name |-> name]

LoginResponses ==
    { Resp(200, TRUE, TRUE, "e9", "nm"),
      Resp(200, TRUE, TRUE, "", ""),
      Resp(201, TRUE, FALSE, "", ""),
      Resp(200, FALSE, FALSE, "", ""),
      Resp(401, TRUE, FALSE, "", ""),
      Resp(500, FALSE, FALSE, "", ""),
      Resp(0, FALSE, FALSE, "", "") }

\* What a response is
Outcome(resp) ==
    IF resp.status = 0 THEN "network error"
    ELSE IF resp.status = 401 THEN "401"
    ELSE IF resp.status \notin 200..299 THEN "other status"
    ELSE IF ~resp.json THEN "2xx without json"
    ELSE "2xx"

\* handleSubmit that does not test resp.ok
RespOkUnchecked(resp) == TRUE

\* resp.ok
RespOk(resp) == resp.status \in 200..299

LoginInit ==
    /\ route = "/login"
    /\ locFrom = "none"
    /\ wanted = "none"
    /\ lsToken = ""
    /\ lsEmployeeId = ""
    /\ lsUserName = ""
    /\ userId = ""
    /\ password = ""
    /\ submitting = FALSE
    /\ loginError = ""
    /\ loginReqs = {}
    /\ loginEvent = "open"
    /\ loginWork = MaxLoginWork

\* A freshly mounted Login component; requests of a page that is gone are
\* dropped
FreshLogin ==
    /\ userId' = ""
    /\ password' = ""
    /\ submitting' = FALSE
    /\ loginError' = ""
    /\ loginReqs' = {}

\* (location.state as any)?.from?.pathname || '/dashboard'
From == IF locFrom # "none" THEN locFrom ELSE "/dashboard"

\* The user opens an App page by its address: App mounts, and its guard
\* effect sends a user without token to /login (101-107)
OpenPage(p) ==
    /\ IF lsToken = ""
       THEN /\ route' = "/login"
            /\ locFrom' = "none"
            /\ wanted' = p
       ELSE /\ route' = p
            /\ locFrom' = "none"
            /\ wanted' = "none"
    /\ FreshLogin
    /\ loginEvent' = "open"
    /\ UNCHANGED <<lsToken, lsEmployeeId, lsUserName, loginWork>>

\* The user opens /login by its address: the mount effect of Login skips the
\* page when a token is stored (13-21)
OpenLogin ==
    /\ route' = IF lsToken # "" THEN "/dashboard" ELSE "/login"
    /\ locFrom' = "none"
    /\ wanted' = "none"
    /\ FreshLogin
    /\ loginEvent' = "open"
    /\ UNCHANGED <<lsToken, lsEmployeeId, lsUserName, loginWork>>

\* App.logout (109-113)
Logout ==
    /\ route \in AppPages
    /\ lsToken' = ""
    /\ route' = "/login"
    /\ locFrom' = "none"
    /\ wanted' = "none"
    /\ FreshLogin
    /\ loginEvent' = "logout"
    /\ UNCHANGED <<lsEmployeeId, lsUserName, loginWork>>

\* employee id input onChange
SetUserId(v) ==
    /\ route = "/login"
    /\ userId # v
    /\ userId' = v
    /\ loginEvent' = "typed"
    /\ UNCHANGED <<route, locFrom, wanted, lsToken, lsEmployeeId, lsUserName, password,
                   submitting, loginError, loginReqs, loginWork>>

\* password input onChange
SetPassword(v) ==
    /\ route = "/login"
    /\ password # v
    /\ password' = v
    /\ loginEvent' = "typed"
    /\ UNCHANGED <<route, locFrom, wanted, lsToken, lsEmployeeId, lsUserName, userId,
                   submitting, loginError, loginReqs, loginWork>>

\* handleSubmit up to its await; the submit button is disabled while submitting
HandleSubmit ==
    /\ route = "/login"
    /\ ~submitting
    /\ IF userId = "" \/ password = ""
       THEN /\ loginError' = "required"
            /\ loginEvent' = "invalid"
            /\ UNCHANGED <<submitting, loginReqs, loginWork>>
       ELSE /\ loginWork > 0
            /\ loginWork' = loginWork - 1
            /\ loginError' = ""
            /\ submitting' = TRUE
            /\ loginReqs' = loginReqs \cup
                  {[n |-> MaxLoginWork - loginWork + 1, employee_id |-> userId,
                    password |-> password]}
            /\ loginEvent' = "sent"
    /\ UNCHANGED <<route, locFrom, wanted, lsToken, lsEmployeeId, lsUserName, userId,
                   password>>

\* handleSubmit from the response on, its finally block included
LoginResponse(r, resp) ==
    /\ route = "/login"
    /\ r \in loginReqs
    /\ loginEvent' = Outcome(resp)
    /\ IF resp.status = 0
       THEN /\ loginError' = "network"
            /\ submitting' = FALSE
            /\ loginReqs' = loginReqs \ {r}
            /\ UNCHANGED <<route, locFrom, lsToken, lsEmployeeId, lsUserName, userId,
                           password>>
       ELSE IF ~RespOk(resp)
       THEN /\ loginError' = IF resp.status = 401 THEN "credentials" ELSE "failed"
            /\ submitting' = FALSE
            /\ loginReqs' = loginReqs \ {r}
            /\ UNCHANGED <<route, locFrom, lsToken, lsEmployeeId, lsUserName, userId,
                           password>>
       ELSE IF ~resp.json
       THEN /\ loginError' = "network"
            /\ submitting' = FALSE
            /\ loginReqs' = loginReqs \ {r}
            /\ UNCHANGED <<route, locFrom, lsToken, lsEmployeeId, lsUserName, userId,
                           password>>
       ELSE /\ lsToken' = resp.token
            /\ lsEmployeeId' = IF ~resp.user THEN lsEmployeeId
                               ELSE IF resp.employee_id # "" THEN resp.employee_id
                               ELSE userId
            /\ lsUserName' = IF resp.user /\ resp.name # "" THEN resp.name ELSE lsUserName
            /\ route' = From
            /\ locFrom' = "none"
            /\ FreshLogin
    /\ UNCHANGED <<wanted, loginWork>>

LoginNext ==
    \/ \E p \in AppPages : OpenPage(p)
    \/ OpenLogin
    \/ Logout
    \/ \E v \in UserIds : SetUserId(v)
    \/ \E v \in Passwords : SetPassword(v)
    \/ HandleSubmit
    \/ \E r \in loginReqs : \E resp \in LoginResponses : LoginResponse(r, resp)

\* The three localStorage entries Login writes
Stored == <<lsToken, lsEmployeeId, lsUserName>>

\* C8: handleSubmit changes localStorage or the route only in the step that
\* handles a 2xx response; a submit with an empty employee id or password
\* sends no request; and after that validation failure, a 401, another
\* non-2xx status or a network error, localStorage and the route are as
\* before, an error message is set and submitting is false.
C8_StoresOnlyOnSuccess ==
    /\ [][(loginEvent' \notin {"open", "logout"} /\ (Stored' # Stored \/ route' # route))
              => loginEvent' = "2xx"]_vars
    /\ [][loginEvent' = "invalid"
              => /\ loginReqs' = loginReqs
                 /\ loginWork' = loginWork]_vars
    /\ [][loginEvent' \in {"invalid", "401", "other status", "network error"}
              => /\ Stored' = Stored
                 /\ route' = route
                 /\ loginError' # ""
                 /\ ~submitting']_vars

\* C8 witness: a first login was answered 2xx and stored the entries, the user
\* logged out, and a second login was answered 401: the entries of the first
\* login are as they were, no token is stored, the user is still on /login
C8_Witness ==
    /\ loginEvent = "401"
    /\ Stored = <<"", "e9", "nm">>
    /\ route = "/login"
    /\ loginError = "credentials"
    /\ ~submitting

\* C9 as stated: after a successful login the user is on the page whose
\* opening sent them to /login, and on /dashboard only when there was none.
C9_ReturnsToWantedPage ==
    loginEvent = "2xx" => route = (IF wanted # "none" THEN wanted ELSE "/dashboard")

-----------------------------------------------------------------------------
(* FileJsonPage: the JSON tool (src/unnamed/part_001, from line 699)        *)

\* JSON values, by name; the first two are the truthy ones of JavaScript
JsonValues == {"{}", "{a:1}", "null", "0", "false"}

\* !v
Falsy(v) == v \in {"null", "0", "false"}

\* JSON.stringify(v, null, 2): text is a sequence of tokens, NL a line break
\* and SP a space
Pretty(v) ==
    IF v = "{a:1}" THEN <<"{", "NL", "SP", "SP", "a:1", "NL", "}">>
    ELSE IF v = "{}" THEN <<"{", "}">>
    ELSE <<v>>

\* The text without its white space
RECURSIVE Squeeze(_)
Squeeze(t) ==
    IF t = <<>> THEN <<>>
    ELSE (IF IsSpace(Head(t)) THEN <<>> ELSE <<Head(t)>>) \o Squeeze(Tail(t))

\* JSON.parse(text): [ok] is false when it throws
ParseValue(text) ==
    LET t == Squeeze(text) IN
    IF t = <<"{", "a:1", "}">> THEN [ok |-> TRUE, value |-> "{a:1}"]
    ELSE IF t = <<"{", "}">> THEN [ok |-> TRUE, value |-> "{}"]
    ELSE IF Len(t) = 1 /\ t[1] \in {"null", "0", "false"} THEN [ok |-> TRUE, value |-> t[1]]
    ELSE [ok |-> FALSE, value |-> "{}"]

\* What the user may leave in the editor
EditorTexts ==
    { <<"{", "SP", "a:1", "}">>, <<"{", "}", "NL">>, <<"null">>, <<"{", "a:1">>, <<>> }

\* The data of the responses of /api/generate
Drafts == {"{a:1}", "null"}

\* v || {}
OrEmptyObject(v) == IF Falsy(v) THEN "{}" ELSE v

\* useMemo prettyDraft
prettyDraft == IF Falsy(draft) THEN <<>> ELSE Pretty(draft)

FjInit ==
    /\ draft = "null"
    /\ currentJson = "{}"
    /\ currentText = Pretty(OrEmptyObject("{}"))
    /\ diffText = ""
    /\ generateBusy = FALSE
    /\ editorFocused = FALSE
    /\ fjReqs = {}
    /\ fjSent = <<>>
    /\ lastValid = "{}"
    /\ fjEvent = "mounted"
    /\ fjWork = MaxJsonWork

\* the user puts the cursor into the editor
FocusEditor ==
    /\ ~editorFocused
    /\ editorFocused' = TRUE
    /\ fjEvent' = "focus"
    /\ UNCHANGED <<draft, currentJson, currentText, diffText, generateBusy, fjReqs, fjSent,
                   lastValid, fjWork>>

\* editor onChange
SetCurrentText(text) ==
    /\ editorFocused
    /\ currentText # text
    /\ currentText' = text
    /\ fjEvent' = "typed"
    /\ UNCHANGED <<draft, currentJson, diffText, generateBusy, editorFocused, fjReqs, fjSent,
                   lastValid, fjWork>>

\* An onBlur that resets the object when the text does not parse
BlurredJsonReset == ParseValue(currentText).value

\* What currentJson is after the editor's onBlur (1100-1106)
BlurredJson ==
    IF ParseValue(currentText).ok THEN ParseValue(currentText).value ELSE currentJson

\* editor onBlur; a click on a button takes the focus from the editor first
BlurEditor ==
    /\ editorFocused
    /\ editorFocused' = FALSE
    /\ currentJson' = BlurredJson
    /\ lastValid' = IF ParseValue(currentText).ok THEN ParseValue(currentText).value
                    ELSE lastValid
    /\ fjEvent' = "blur"
    /\ UNCHANGED <<draft, currentText, diffText, generateBusy, fjReqs, fjSent, fjWork>>

\* apply-draft button (1078-1089)
ApplyDraft ==
    /\ ~editorFocused
    /\ LET text == IF prettyDraft # <<>> THEN prettyDraft ELSE <<"{", "}">>
           obj == ParseValue(text)
       IN  IF obj.ok
           THEN /\ currentJson' = obj.value
                /\ currentText' = Pretty(obj.value)
                /\ lastValid' = obj.value
           ELSE UNCHANGED <<currentJson, currentText, lastValid>>
    /\ fjEvent' = "apply"
    /\ UNCHANGED <<draft, diffText, generateBusy, editorFocused, fjReqs, fjSent, fjWork>>

\* The next request of the page
FjRequest(kind) == [n |-> MaxJsonWork - fjWork + 1, kind |-> kind]

\* doGenerate up to its await; the button is disabled while generateBusy
DoGenerate ==
    /\ ~editorFocused
    /\ ~generateBusy
    /\ fjWork > 0
    /\ fjWork' = fjWork - 1
    /\ generateBusy' = TRUE
    /\ fjReqs' = fjReqs \cup {FjRequest("generate")}
    /\ fjEvent' = "generate"
    /\ UNCHANGED <<draft, currentJson, currentText, diffText, editorFocused, fjSent, lastValid>>

\* doGenerate after postJSON resolved
GenerateOk(r, data) ==
    /\ r \in fjReqs /\ r.kind = "generate"
    /\ fjReqs' = fjReqs \ {r}
    /\ draft' = data
    /\ generateBusy' = FALSE
    /\ fjEvent' = "draft"
    /\ UNCHANGED <<currentJson, currentText, diffText, editorFocused, fjSent, lastValid,
                   fjWork>>

\* doGenerate after postJSON rejected
GenerateFailed(r) ==
    /\ r \in fjReqs /\ r.kind = "generate"
    /\ fjReqs' = fjReqs \ {r}
    /\ generateBusy' = FALSE
    /\ fjEvent' = "alert"
    /\ UNCHANGED <<draft, currentJson, currentText, diffText, editorFocused, fjSent,
                   lastValid, fjWork>>

\* doDiff up to its await
DoDiff ==
    /\ ~editorFocused
    /\ fjWork > 0
    /\ fjWork' = fjWork - 1
    /\ fjReqs' = fjReqs \cup {FjRequest("diff")}
    /\ fjSent' = Append(fjSent, [to |-> "diff", json |-> OrEmptyObject(currentJson),
                                 preview |-> OrEmptyObject(draft), valid |-> lastValid])
    /\ fjEvent' = "diff"
    /\ UNCHANGED <<draft, currentJson, currentText, diffText, generateBusy, editorFocused,
                   lastValid>>

\* doDiff after postJSON resolved
DiffOk(r, diff) ==
    /\ r \in fjReqs /\ r.kind = "diff"
    /\ fjReqs' = fjReqs \ {r}
    /\ diffText' = diff
    /\ fjEvent' = "diffed"
    /\ UNCHANGED <<draft, currentJson, currentText, generateBusy, editorFocused, fjSent,
                   lastValid, fjWork>>

\* downloadExcel(useDraft) up to its await; with a draft and useDraft the
\* draft is exported and nothing is sent as the current JSON
DownloadExcel(useDraft) ==
    /\ ~editorFocused
    /\ fjWork > 0
    /\ fjWork' = fjWork - 1
    /\ fjReqs' = fjReqs \cup {FjRequest("excel")}
    /\ fjSent' = IF useDraft /\ ~Falsy(draft) THEN fjSent
                 ELSE Append(fjSent, [to |-> "excel", json |-> OrEmptyObject(currentJson),
                                      preview |-> "{}", valid |-> lastValid])
    /\ fjEvent' = "excel"
    /\ UNCHANGED <<draft, currentJson, currentText, diffText, generateBusy, editorFocused,
                   lastValid>>

\* doDiff after postJSON rejected, downloadExcel after postBlob settled
RequestDone(r) ==
    /\ r \in fjReqs /\ r.kind \in {"diff", "excel"}
    /\ fjReqs' = fjReqs \ {r}
    /\ fjEvent' = "done"
    /\ UNCHANGED <<draft, currentJson, currentText, diffText, generateBusy, editorFocused,
                   fjSent, lastValid, fjWork>>

FjNext ==
    \/ FocusEditor
    \/ \E text \in EditorTexts : SetCurrentText(text)
    \/ BlurEditor
    \/ ApplyDraft
    \/ DoGenerate
    \/ \E r \in fjReqs : \E data \in Drafts : GenerateOk(r, data)
    \/ \E r \in fjReqs : GenerateFailed(r)
    \/ DoDiff
    \/ \E r \in fjReqs : \E diff \in {"-a+b"} : DiffOk(r, diff)
    \/ \E useDraft \in BOOLEAN : DownloadExcel(useDraft)
    \/ \E r \in fjReqs : RequestDone(r)

\* C10 as stated: every diff request and every Excel export of the current
\* JSON sent the last valid JSON value.
C10_SendsLastValid ==
    \A i \in DOMAIN fjSent : fjSent[i].json = fjSent[i].valid

\* C10, amended: currentJson changes only in the editor's blur with text that
\* parses, to the parsed value, or in the apply-draft step; a blur with text
\* that does not parse leaves it; it always is the last valid value; and every
\* diff request and Excel export of the current JSON sent that value, or {} in
\* its place when the value was null, 0 or false.
C10_SeparateStates ==
    /\ [](currentJson = lastValid)
    /\ [](\A i \in DOMAIN fjSent : fjSent[i].json = OrEmptyObject(fjSent[i].valid))
    /\ [][currentJson' # currentJson
              => \/ /\ fjEvent' = "blur"
                    /\ ParseValue(currentText).ok
                    /\ currentJson' = ParseValue(currentText).value
                 \/ fjEvent' = "apply"]_vars
    /\ [][(fjEvent' = "blur" /\ ~ParseValue(currentText).ok)
              => currentJson' = currentJson]_vars

\* C10 witness: the current JSON was {a:1}, the editor was left with text that
\* does not parse, and the diff request just sent carried {a:1}
C10_Witness ==
    /\ fjEvent = "diff"
    /\ Last(fjSent).to = "diff"
    /\ Last(fjSent).json = "{a:1}"
    /\ ~ParseValue(currentText).ok
    /\ ~editorFocused

\* C11 as stated: applying the draft while there is none (or an empty one)
\* leaves currentJson and currentText as they were; with a draft both are set
\* to it, the text being its pretty-printed form.
C11_ApplyWithoutDraftDoesNothing ==
    [][fjEvent' = "apply"
          => IF Falsy(draft)
             THEN currentJson' = currentJson /\ currentText' = currentText
             ELSE currentJson' = draft /\ currentText' = Pretty(draft)]_vars

\* C14 as stated: after any sequence of add, edit, delete, reorder and the three
\* imports every element of the preset list is an object with a non-empty id, a
\* non-empty title and a non-empty question.
C14_PresetsWellFormed == AllWellFormed(presets)

-----------------------------------------------------------------------------
(* EduDemo: scripted playback of a conversation                             *)
(* (src/frontend/src/pages/EduDemo.tsx)                                     *)

\* const SPINNER_STEPS = [2, 4]
SPINNER_STEPS == {2, 4}

\* A scenario item; file_name "" models an item without file
ScenarioItem(role, text, file) == [role |-> role, text |-> text, file_name |-> file]

\* The scenarios /api/scenario may return
Scenarios ==
    { <<>>,
      << ScenarioItem("user", "m0", ""), ScenarioItem("assistant", "m1", ""),
         ScenarioItem("assistant", "m2", "") >>,
      << ScenarioItem("user", "m0", ""), ScenarioItem("assistant", "m1", "f1"),
         ScenarioItem("assistant", "m2", "f2"), ScenarioItem("user", "m3", ""),
         ScenarioItem("assistant", "m4", "f4") >> }

\* A scenario item as a message, and the placeholder message
AsMessage(item) ==
    [role |-> item.role, text |-> item.text, file_name |-> item.file_name, type |-> ""]

SpinnerMessage ==
    [role |-> "assistant", text |-> "preparing", file_name |-> "", type |-> "spinner"]

NoTimer == [kind |-> "none", step |-> 0, ms |-> 0]

\* speed label -> ms (51-55); "fast", "normal" and "slow" stand for the three labels
IntervalOf(label) ==
    IF label = "fast" THEN 300 ELSE IF label = "normal" THEN 600 ELSE 1000

\* A playback that skips an item
NextStepSkipping(s) == s + 2

\* setStep(s => s + 1)
NextStep(s) == s + 1

EduInit ==
    /\ scenario = <<>>
    /\ eduMessages = <<>>
    /\ step = 0
    /\ playing = FALSE
    /\ paused = FALSE
    /\ spinnerStep = -1
    /\ speedLabel = "normal"
    /\ intervalMs = 600
    /\ eduTimer = NoTimer
    /\ effectPending = FALSE
    /\ scenarioReq = TRUE

\* The dependencies of the playback effect (140)
Deps == <<playing, paused, step, spinnerStep, scenario, intervalMs>>

\* After a render the effect runs again when a dependency has changed
Rendered ==
    effectPending' =
        (effectPending \/ <<playing', paused', step', spinnerStep', scenario', intervalMs'>> # Deps)

\* fetchScenario after the response (37-41)
ScenarioLoaded(sc) ==
    /\ scenarioReq
    /\ ~effectPending
    /\ scenarioReq' = FALSE
    /\ scenario' = sc
    /\ UNCHANGED <<eduMessages, step, playing, paused, spinnerStep, speedLabel, intervalMs,
                   eduTimer>>
    /\ Rendered

\* fetchScenario rejected: nothing handles it
ScenarioFailed ==
    /\ scenarioReq
    /\ ~effectPending
    /\ scenarioReq' = FALSE
    /\ UNCHANGED <<scenario, eduMessages, step, playing, paused, spinnerStep, speedLabel,
                   intervalMs, eduTimer, effectPending>>

\* An effect that leaves the spinner as it is
MarkSpinnerKept(msgs) == msgs

\* The last message with a spinner marked done (95-103)
MarkSpinnerDone(msgs) ==
    IF msgs # <<>> /\ Last(msgs).type = "spinner"
    THEN [msgs EXCEPT ![Len(msgs)].type = "spinner_done"]
    ELSE msgs

\* The playback effect: the cleanup of its previous run, then its body (86-140)
PlaybackEffect ==
    /\ effectPending
    /\ IF ~playing \/ paused \/ scenario = <<>>
       THEN /\ eduTimer' = NoTimer
            /\ effectPending' = FALSE
            /\ UNCHANGED <<eduMessages, playing, paused>>
       ELSE IF spinnerStep # -1
       THEN /\ eduMessages' = MarkSpinnerDone(eduMessages)
            /\ eduTimer' = [kind |-> "spinner", step |-> spinnerStep, ms |-> 2000]
            /\ effectPending' = FALSE
            /\ UNCHANGED <<playing, paused>>
       ELSE IF step >= Len(scenario)
       THEN /\ playing' = FALSE
            /\ paused' = FALSE
            /\ eduTimer' = NoTimer
            /\ effectPending' = TRUE
            /\ UNCHANGED eduMessages
       ELSE /\ eduTimer' = [kind |-> "next", step |-> step, ms |-> intervalMs]
            /\ effectPending' = FALSE
            /\ UNCHANGED <<eduMessages, playing, paused>>
    /\ UNCHANGED <<scenario, step, spinnerStep, speedLabel, intervalMs, scenarioReq>>

\* The callback of the effect's timeout (105-109, 122-137)
TimerFires ==
    /\ ~effectPending
    /\ eduTimer # NoTimer
    /\ eduTimer' = NoTimer
    /\ LET item == scenario[eduTimer.step + 1] IN
       IF eduTimer.kind = "spinner"
       THEN /\ eduMessages' = Append(eduMessages, AsMessage(item))
            /\ step' = eduTimer.step + 1
            /\ spinnerStep' = -1
       ELSE IF item.file_name # "" /\ eduTimer.step \in SPINNER_STEPS
       THEN /\ eduMessages' = Append(eduMessages, SpinnerMessage)
            /\ spinnerStep' = eduTimer.step
            /\ UNCHANGED step
       ELSE /\ eduMessages' = Append(eduMessages, AsMessage(item))
            /\ step' = NextStep(step)
            /\ UNCHANGED spinnerStep
    /\ UNCHANGED <<scenario, playing, paused, speedLabel, intervalMs, scenarioReq>>
    /\ Rendered

\* handlePlay (142-149)
HandlePlay ==
    /\ ~effectPending
    /\ eduMessages' = <<>>
    /\ step' = 0
    /\ playing' = TRUE
    /\ paused' = FALSE
    /\ spinnerStep' = -1
    /\ UNCHANGED <<scenario, speedLabel, intervalMs, eduTimer, scenarioReq>>
    /\ Rendered

\* handlePause; the button is disabled unless playing and not paused
HandlePause ==
    /\ ~effectPending
    /\ playing /\ ~paused
    /\ paused' = TRUE
    /\ UNCHANGED <<scenario, eduMessages, step, playing, spinnerStep, speedLabel, intervalMs,
                   eduTimer, scenarioReq>>
    /\ Rendered

\* handleResume; the button is disabled unless paused and a scenario is loaded
HandleResume ==
    /\ ~effectPending
    /\ paused /\ scenario # <<>>
    /\ paused' = FALSE
    /\ playing' = TRUE
    /\ UNCHANGED <<scenario, eduMessages, step, spinnerStep, speedLabel, intervalMs, eduTimer,
                   scenarioReq>>
    /\ Rendered

\* handleReset (158-166), with the speed effect that follows it
HandleReset ==
    /\ ~effectPending
    /\ eduMessages' = <<>>
    /\ step' = 0
    /\ playing' = FALSE
    /\ paused' = FALSE
    /\ spinnerStep' = -1
    /\ speedLabel' = "normal"
    /\ intervalMs' = IntervalOf("normal")
    /\ UNCHANGED <<scenario, eduTimer, scenarioReq>>
    /\ Rendered

\* speed select onChange, with the speed effect that follows it (51-55)
SetSpeedLabel(label) ==
    /\ ~effectPending
    /\ speedLabel # label
    /\ speedLabel' = label
    /\ intervalMs' = IntervalOf(label)
    /\ UNCHANGED <<scenario, eduMessages, step, playing, paused, spinnerStep, eduTimer,
                   scenarioReq>>
    /\ Rendered

EduNext ==
    \/ \E sc \in Scenarios : ScenarioLoaded(sc)
    \/ ScenarioFailed
    \/ PlaybackEffect
    \/ TimerFires
    \/ HandlePlay
    \/ HandlePause
    \/ HandleResume
    \/ HandleReset
    \/ \E label \in {"fast", "normal", "slow"} : SetSpeedLabel(label)

\* The displayed messages that are not placeholders
RealMessages == SelectSeq(eduMessages, LAMBDA msg : msg.type = "")

\* C12: in every reachable state the displayed messages without the spinner
\* placeholders are the first `step` items of the scenario, in scenario order.
C12_ShowsFirstStepItems ==
    /\ step <= Len(scenario)
    /\ RealMessages = [i \in 1..step |-> AsMessage(scenario[i])]

\* C12 witness: the whole five-item scenario is displayed at the slow speed,
\* with the two finished placeholders among the items, and playback has ended
C12_Witness ==
    /\ step = 5
    /\ Len(eduMessages) = 7
    /\ eduMessages[3].type = "spinner_done"
    /\ speedLabel = "slow"
    /\ ~playing
    /\ ~effectPending

\* The number of real messages among the first n displayed messages
RealBefore(n) == Len(SelectSeq(SubSeq(eduMessages, 1, n), LAMBDA msg : msg.type = ""))

\* The scenario step k (0-based) is one that gets a placeholder
WithSpinner(k) == k \in SPINNER_STEPS /\ scenario[k + 1].file_name # ""

\* C19: a real item of step 2 or 4 with a file_name stands directly after a
\* placeholder marked "spinner_done" and every other real item stands after no
\* placeholder; a message of type "spinner" is the last message (so there is at
\* most one); a placeholder is there only for a step that gets one.
C19_SpinnerBeforeFileItem ==
    \A j \in 1..Len(eduMessages) :
        LET msg == eduMessages[j]
            k == RealBefore(j - 1)
        IN  /\ k < Len(scenario)
            /\ IF msg.type = ""
               THEN IF WithSpinner(k)
                    THEN j > 1 /\ eduMessages[j - 1].type = "spinner_done"
                    ELSE j = 1 \/ eduMessages[j - 1].type = ""
               ELSE /\ WithSpinner(k)
                    /\ msg.type = "spinner" => j = Len(eduMessages)
                    /\ j < Len(eduMessages) => eduMessages[j + 1].type = ""

\* C19 as steps: the real item of a step that gets a placeholder is appended
\* only when the last message is a placeholder already marked "spinner_done".
C19_DoneBeforeItem ==
    [][(Len(eduMessages') = Len(eduMessages) + 1 /\ Last(eduMessages').type = ""
        /\ WithSpinner(step))
       => (eduMessages # <<>> /\ Last(eduMessages).type = "spinner_done")]_vars

\* C19 witness: the item of step 1 has a file and no placeholder, the item of
\* step 2 stands after its finished placeholder, and the placeholder of step 4
\* is the last message, still spinning
C19_Witness ==
    /\ Len(eduMessages) = 6
    /\ eduMessages[2].file_name = "f1"
    /\ eduMessages[3].type = "spinner_done"
    /\ eduMessages[4].text = "m2"
    /\ eduMessages[6].type = "spinner"

-----------------------------------------------------------------------------
(* LicenseCheckerPage: summary, then judgement                              *)
(* (src/unnamed/part_003, src/frontend/src/api/license.ts)                  *)

SoftwareNames == {"", "sw"}
LicenseTexts == {"", "MIT"}
UsageTypes == {"internal", "product"}

\* Bodies of a 2xx answer of /api/license/summary: two summaries, an object
\* without summary, the JSON null, and a body that is not JSON
SummaryBodies == {"S1", "S2", "no-summary", "null", "not-json"}

\* Bodies of a 2xx answer of /api/license/judge
JudgeBodies == {"J1", "null", "not-json"}

NoSummary == [present |-> FALSE, summary |-> ""]
NoJudge == [present |-> FALSE, result |-> ""]
NoLicReq == [kind |-> "none", software_name |-> "", license_text |-> "",
             usage_type |-> "", license_summary |-> ""]

\* res.json() of a summary answer as LicenseSummaryResponse (55)
SummaryOf(body) ==
    IF body = "null" THEN NoSummary
    ELSE [present |-> TRUE, summary |-> IF body = "no-summary" THEN "undefined" ELSE body]

\* res.json() of a judge answer as LicenseJudgeResponse (55)
JudgeOf(body) ==
    IF body = "null" THEN NoJudge ELSE [present |-> TRUE, result |-> body]

\* softwareName || null
NameOrNull(name) == IF name = "" THEN "null" ELSE name

\* A judge request that carries a fixed summary
JudgeReqFixed(res1) ==
    [kind |-> "judge", software_name |-> NameOrNull(softwareName), license_text |-> "",
     usage_type |-> usageType, license_summary |-> "S1"]

\* judgeReq (135-139)
JudgeReq(res1) ==
    [kind |-> "judge", software_name |-> NameOrNull(softwareName), license_text |-> "",
     usage_type |-> usageType, license_summary |-> res1.summary]

\* summaryReq (125-128)
SummaryReq ==
    [kind |-> "summary", software_name |-> NameOrNull(softwareName),
     license_text |-> licenseText, usage_type |-> "", license_summary |-> ""]

LicInit ==
    /\ softwareName = ""
    /\ licenseText = ""
    /\ usageType = "internal"
    /\ phase = "idle"
    /\ summaryRes = NoSummary
    /\ judgeRes = NoJudge
    /\ licError = ""
    /\ licReq = NoLicReq
    /\ licLog = <<>>

SetSoftwareName(name) ==
    /\ softwareName # name
    /\ softwareName' = name
    /\ UNCHANGED <<licenseText, usageType, phase, summaryRes, judgeRes, licError, licReq, licLog>>

SetLicenseText(text) ==
    /\ licenseText # text
    /\ licenseText' = text
    /\ UNCHANGED <<softwareName, usageType, phase, summaryRes, judgeRes, licError, licReq, licLog>>

SetUsageType(u) ==
    /\ usageType # u
    /\ usageType' = u
    /\ UNCHANGED <<softwareName, licenseText, phase, summaryRes, judgeRes, licError, licReq, licLog>>

\* runCheck up to the first await; the button is disabled unless phase is idle
RunCheck ==
    /\ phase = "idle"
    /\ licError' = ""
    /\ summaryRes' = NoSummary
    /\ judgeRes' = NoJudge
    /\ phase' = "summarizing"
    /\ licReq' = SummaryReq
    /\ licLog' = <<SummaryReq>>
    /\ UNCHANGED <<softwareName, licenseText, usageType>>

\* catch and finally of runCheck (143-148)
RunFailed(msg) ==
    /\ licError' = msg
    /\ phase' = "idle"
    /\ licReq' = NoLicReq
    /\ UNCHANGED <<softwareName, licenseText, usageType, licLog>>

\* fetchLicenseSummary resolved with a 2xx answer (129-140)
SummaryOk(body) ==
    /\ licReq.kind = "summary"
    /\ IF body = "not-json"
       THEN RunFailed("SyntaxError") /\ UNCHANGED <<summaryRes, judgeRes>>
       ELSE LET res1 == SummaryOf(body) IN
            /\ summaryRes' = res1
            /\ UNCHANGED judgeRes
            /\ IF ~res1.present
               THEN \* res1.summary of null throws after setPhase("judging")
                    /\ licError' = "TypeError"
                    /\ phase' = "idle"
                    /\ licReq' = NoLicReq
                    /\ UNCHANGED licLog
               ELSE /\ phase' = "judging"
                    /\ licReq' = JudgeReq(res1)
                    /\ licLog' = Append(licLog, JudgeReq(res1))
                    /\ UNCHANGED licError
            /\ UNCHANGED <<softwareName, licenseText, usageType>>

\* fetchLicenseSummary rejected: a non-2xx answer (handleResponse) or no answer
SummaryFailed(msg) ==
    /\ licReq.kind = "summary"
    /\ RunFailed(msg)
    /\ UNCHANGED <<summaryRes, judgeRes>>

\* fetchLicenseJudge resolved with a 2xx answer (140-148)
JudgeOk(body) ==
    /\ licReq.kind = "judge"
    /\ IF body = "not-json"
       THEN RunFailed("SyntaxError") /\ UNCHANGED <<summaryRes, judgeRes>>
       ELSE /\ judgeRes' = JudgeOf(body)
            /\ phase' = "idle"
            /\ licReq' = NoLicReq
            /\ UNCHANGED <<softwareName, licenseText, usageType, summaryRes, licError, licLog>>

\* fetchLicenseJudge rejected
JudgeFailed(msg) ==
    /\ licReq.kind = "judge"
    /\ RunFailed(msg)
    /\ UNCHANGED <<summaryRes, judgeRes>>

LicNext ==
    \/ \E name \in SoftwareNames : SetSoftwareName(name)
    \/ \E text \in LicenseTexts : SetLicenseText(text)
    \/ \E u \in UsageTypes : SetUsageType(u)
    \/ RunCheck
    \/ \E body \in SummaryBodies : SummaryOk(body)
    \/ \E msg \in {"HTTP 500", "Failed to fetch"} : SummaryFailed(msg)
    \/ \E body \in JudgeBodies : JudgeOk(body)
    \/ \E msg \in {"HTTP 500", "Failed to fetch"} : JudgeFailed(msg)

\* What holds of the license check in every state
LicenseOrder ==
    /\ (licReq.kind = "judge")
          => /\ phase = "judging"
             /\ summaryRes.present
             /\ licReq.license_summary = summaryRes.summary
    /\ (licReq.kind = "summary") <=> (phase = "summarizing")
    /\ (licReq.kind = "none") <=> (phase = "idle")
    /\ judgeRes.present => summaryRes.present /\ Len(licLog) = 2
    /\ Len(licLog) <= 2
    /\ \A i \in 1..Len(licLog) : licLog[i].kind = (IF i = 1 THEN "summary" ELSE "judge")
    /\ (licError # "" /\ ~summaryRes.present) => Len(licLog) = 1

\* How the phase moves in one step
LicenseStep ==
    /\ phase' # phase
          => \/ phase = "idle" /\ phase' = "summarizing"
             \/ phase = "summarizing" /\ phase' \in {"judging", "idle"}
             \/ phase = "judging" /\ phase' = "idle"
    /\ (phase = "summarizing" /\ phase' = "judging") => summaryRes'.present
    /\ (licLog' # licLog /\ Len(licLog') = 1) => phase = "idle"
    /\ (licReq' # licReq /\ licReq'.kind # "judge" /\ licReq.kind # "none") => phase' = "idle"

\* C13: the judge request is sent only after the summary request has succeeded
\* and carries the summary that was returned; a failed summary request sends no
\* judge request; a judgement is displayed only with the summary of the same
\* run; the phase goes idle, summarizing, judging, idle, is idle again after
\* every outcome, and a run starts only in phase idle.
C13_SummaryThenJudge == []LicenseOrder /\ [][LicenseStep]_vars

\* C13 witness: a run has ended with a judgement for the product use of a
\* summary that is not the first one
C13_Witness ==
    /\ phase = "idle"
    /\ judgeRes.present
    /\ summaryRes.summary = "S2"
    /\ licLog[2].license_summary = "S2"
    /\ licLog[2].usage_type = "product"

-----------------------------------------------------------------------------
(* ResultTable: filter and pagination (src/unnamed/part_001 14-108)         *)

\* Sizes of the row lists a query returns
RowCounts == {1, 26, 50, 80, 120}

\* The option values of the page size select (87-90)
PageSizes == {25, 50, 100, 200}

\* Texts typed into the filter input
FilterTexts == {<<>>, <<"b">>, <<"SP", "B">>, <<"z">>}

\* A cell: null or a text (token sequence)
NullCell == [null |-> TRUE, text |-> <<>>]
TextCell(t) == [null |-> FALSE, text |-> t]

\* The i-th row of a result: its position and the cells of the two columns
RowAt(i) ==
    [id |-> i,
     cells |-> << IF i % 3 = 0 THEN TextCell(<<"a", "B">>)
                  ELSE IF i % 3 = 1 THEN TextCell(<<"b">>)
                  ELSE TextCell(<<"c">>),
                  NullCell >>]

RowsOf(n) == [i \in 1..n |-> RowAt(i)]

\* String(v ?? "")
CellString(cell) == IF cell.null THEN <<>> ELSE cell.text

\* String.prototype.toLowerCase
Lower(t) == [i \in DOMAIN t |-> IF t[i] = "A" THEN "a" ELSE IF t[i] = "B" THEN "b" ELSE t[i]]

\* String.prototype.includes
Includes(t, sub) ==
    \E i \in 0..(Len(t) - Len(sub)) : SubSeq(t, i + 1, i + Len(sub)) = sub

\* The filter predicate of one row (21-23)
RowMatches(r, text) ==
    \E c \in DOMAIN r.cells : Includes(Lower(CellString(r.cells[c])), Lower(Trim(text)))

\* filtered (20-24)
Filtered(list, text) ==
    IF Trim(text) # <<>> THEN SelectSeq(list, LAMBDA r : RowMatches(r, text)) ELSE list

\* A page count that rounds down
MaxPageFloor(total, size) ==
    IF total \div size > 1 THEN total \div size ELSE 1

\* maxPage = Math.max(1, Math.ceil(totalFiltered / pageSize)) (27)
MaxPage(total, size) ==
    LET ceil == (total + size - 1) \div size IN IF ceil > 1 THEN ceil ELSE 1

\* currentPage = Math.min(page, maxPage) (28)
CurrentPage(p, maxPage) == IF p < maxPage THEN p ELSE maxPage

\* filtered.slice(start, start + pageSize) for the page p (29-30)
SliceOf(filtered, p, size) ==
    LET start == (p - 1) * size
        lo == IF start < Len(filtered) THEN start ELSE Len(filtered)
        hi == IF start + size < Len(filtered) THEN start + size ELSE Len(filtered)
    IN  SubSeq(filtered, lo + 1, hi)

TableInit ==
    /\ tableMounted = FALSE
    /\ tableRows = <<>>
    /\ pageSize = 50
    /\ page = 1
    /\ filterText = <<>>

\* A result with rows arrives while no table is shown: ResultTable mounts (512)
TableMount(n) ==
    /\ ~tableMounted
    /\ tableMounted' = TRUE
    /\ tableRows' = RowsOf(n)
    /\ pageSize' = 50
    /\ page' = 1
    /\ filterText' = <<>>

\* runQuery starts with setRows([]): ResultTable unmounts (245, 512)
TableUnmount ==
    /\ tableMounted
    /\ tableMounted' = FALSE
    /\ tableRows' = <<>>
    /\ pageSize' = 50
    /\ page' = 1
    /\ filterText' = <<>>

\* The result of an overlapping query replaces the rows of the mounted table (252)
RowsReplaced(n) ==
    /\ tableMounted
    /\ tableRows # RowsOf(n)
    /\ tableRows' = RowsOf(n)
    /\ UNCHANGED <<tableMounted, pageSize, page, filterText>>

\* filter input onChange (71-74)
SetFilterText(text) ==
    /\ tableMounted
    /\ filterText # text
    /\ filterText' = text
    /\ page' = 1
    /\ UNCHANGED <<tableMounted, tableRows, pageSize>>

\* page size select onChange (81-84)
SetPageSize(size) ==
    /\ tableMounted
    /\ pageSize # size
    /\ pageSize' = size
    /\ page' = 1
    /\ UNCHANGED <<tableMounted, tableRows, filterText>>

maxPage == MaxPage(Len(Filtered(tableRows, filterText)), pageSize)

currentPage == CurrentPage(page, maxPage)

\* previous button (95); disabled when currentPage <= 1
PrevPage ==
    /\ tableMounted
    /\ currentPage > 1
    /\ page' = IF page - 1 > 1 THEN page - 1 ELSE 1
    /\ UNCHANGED <<tableMounted, tableRows, pageSize, filterText>>

\* next button (101-104); disabled when currentPage >= maxPage
NextPage ==
    /\ tableMounted
    /\ currentPage < maxPage
    /\ page' = IF page + 1 < maxPage THEN page + 1 ELSE maxPage
    /\ UNCHANGED <<tableMounted, tableRows, pageSize, filterText>>

TableNext ==
    \/ \E n \in RowCounts : TableMount(n)
    \/ TableUnmount
    \/ \E n \in RowCounts : RowsReplaced(n)
    \/ \E text \in FilterTexts : SetFilterText(text)
    \/ \E size \in PageSizes : SetPageSize(size)
    \/ PrevPage
    \/ NextPage

\* The rows that pass the filter, stated without the code's operators
TableFiltered == Filtered(tableRows, filterText)

\* What holds of the table in every state
PaginationExact ==
    LET shown == TableFiltered
        last == maxPage
        pages == [p \in 1..last |-> SliceOf(shown, p, pageSize)]
    IN  /\ pageSize \in PageSizes
        /\ currentPage \in 1..last
        /\ last >= 1
        /\ last * pageSize >= Len(shown)
        /\ last > 1 => (last - 1) * pageSize < Len(shown)
        /\ \A p \in 1..last : Len(pages[p]) <= pageSize
        /\ Flatten(pages) = shown
        /\ \A i \in 2..Len(shown) : shown[i - 1].id < shown[i].id
        /\ {shown[k].id : k \in 1..Len(shown)}
              = {i \in 1..Len(tableRows) :
                    Trim(filterText) = <<>> \/ RowMatches(tableRows[i], filterText)}

\* C15: the displayed page is in 1..maxPage with maxPage the rounded-up quotient
\* (at least 1); the pages 1..maxPage, each of at most pageSize rows, put one
\* after the other are the filtered rows in their original order; a change of
\* the filter text or of the page size sets the page to 1; previous and next
\* keep the displayed page in range.
C15_PaginationExact ==
    /\ []PaginationExact
    /\ [][(filterText' # filterText \/ pageSize' # pageSize) => page' = 1]_vars

\* C15 witness: the filter has left 53 of 80 rows, shown 25 to a page, and the
\* last of the three pages, which holds 3 rows, is displayed
C15_Witness ==
    /\ tableMounted
    /\ Len(tableRows) = 80
    /\ Len(TableFiltered) = 53
    /\ pageSize = 25
    /\ maxPage = 3
    /\ currentPage = 3
    /\ Len(SliceOf(TableFiltered, currentPage, pageSize)) = 3

-----------------------------------------------------------------------------
(* exportCsv: the query result as a CSV file (src/unnamed/part_001 363-390) *)

\* Most rows of a result
MaxCsvRows == 2

\* Characters of names and cells: a letter, the double quote, the comma, the
\* line feed and the carriage return
CsvChars == {"x", "Q", "C", "LF", "CR"}

\* Column lists of a result
CsvColumnLists == { <<>>, << <<"x">> >>, << <<"x", "C", "x">>, <<"Q">> >> }

\* Values of a cell of the first column, and of a further column
FirstCells ==
    { NullCell, TextCell(<<>>), TextCell(<<"x">>), TextCell(<<"x", "Q", "x">>),
      TextCell(<<"C">>), TextCell(<<"x", "LF", "x">>), TextCell(<<"x", "CR", "x">>) }

OtherCells == { NullCell, TextCell(<<"x">>) }

CsvRowsFor(cols) ==
    IF Len(cols) = 0 THEN {<<>>}
    ELSE IF Len(cols) = 1 THEN { <<a>> : a \in FirstCells }
    ELSE { <<a, b>> : a \in {NullCell, TextCell(<<"x", "Q", "x">>), TextCell(<<"C">>)},
                      b \in OtherCells }

NoCsv == <<"none">>

\* s.replace(/"/g, '""')
DoubleQuotes(t) == Flatten([i \in DOMAIN t |-> IF t[i] = "Q" THEN <<"Q", "Q">> ELSE <<t[i]>>])

\* An escape that quotes nothing
EscapePlain(cell) == CellString(cell)

\* escapeCsvField (369-374), for the value r?.[c] ?? ""
EscapeCsvField(cell) ==
    LET str == CellString(cell) IN
    IF \E i \in DOMAIN str : str[i] \in {"Q", "C", "LF"}
    THEN <<"Q">> \o DoubleQuotes(str) \o <<"Q">>
    ELSE str

\* Array.prototype.join
RECURSIVE Join(_, _)
Join(parts, sep) ==
    IF parts = <<>> THEN <<>>
    ELSE IF Len(parts) = 1 THEN parts[1]
    ELSE parts[1] \o <<sep>> \o Join(Tail(parts), sep)

\* One line of the file
CsvLine(cells) == Join([i \in DOMAIN cells |-> EscapeCsvField(cells[i])], "C")

\* bom + csv (376-382)
CsvText(cols, list) ==
    <<"BOM">> \o Join(<<CsvLine([i \in DOMAIN cols |-> TextCell(cols[i])])>>
                          \o [i \in DOMAIN list |-> CsvLine(list[i])], "LF")

CsvInit ==
    /\ csvColumns = <<>>
    /\ csvRows = <<>>
    /\ csvOut = NoCsv
    /\ csvAlert = FALSE

\* runQuery starts: setRows([]), setColumns([]) (245-246)
CsvClear ==
    /\ csvColumns # <<>> \/ csvRows # <<>> \/ csvAlert
    /\ csvColumns' = <<>>
    /\ csvRows' = <<>>
    /\ csvOut' = NoCsv
    /\ csvAlert' = FALSE

\* Its result arrives (250-252)
CsvResult(cols, list) ==
    /\ csvColumns = <<>> /\ csvRows = <<>> /\ ~csvAlert
    /\ csvColumns' = cols
    /\ csvRows' = list
    /\ csvOut' = NoCsv
    /\ csvAlert' = FALSE

\* exportCsv (363-390)
ExportCsv ==
    /\ csvOut = NoCsv /\ ~csvAlert
    /\ IF Len(csvColumns) = 0 \/ Len(csvRows) = 0
       THEN csvAlert' = TRUE /\ UNCHANGED csvOut
       ELSE csvOut' = CsvText(csvColumns, csvRows) /\ UNCHANGED csvAlert
    /\ UNCHANGED <<csvColumns, csvRows>>

CsvNext ==
    \/ \E cols \in CsvColumnLists :
          \E list \in SeqsUpTo(CsvRowsFor(cols), MaxCsvRows) : CsvResult(cols, list)
    \/ CsvClear
    \/ ExportCsv

\* A CSV reader: fields separated by commas, records by LF, CR or CR LF, a
\* field in double quotes may hold any character, a doubled quote standing for
\* one. mode is "start" (at the start of a field), "plain", "quoted" or "qq"
\* (after a quote inside a quoted field).
RECURSIVE ParseCsvFrom(_, _, _, _, _, _)
ParseCsvFrom(t, i, recs, rec, field, mode) ==
    IF i > Len(t) THEN Append(recs, Append(rec, field))
    ELSE LET ch == t[i] IN
         IF mode = "quoted"
         THEN IF ch = "Q" THEN ParseCsvFrom(t, i + 1, recs, rec, field, "qq")
              ELSE ParseCsvFrom(t, i + 1, recs, rec, Append(field, ch), "quoted")
         ELSE IF ch = "Q" /\ mode = "qq"
         THEN ParseCsvFrom(t, i + 1, recs, rec, Append(field, "Q"), "quoted")
         ELSE IF ch = "Q" /\ mode = "start"
         THEN ParseCsvFrom(t, i + 1, recs, rec, field, "quoted")
         ELSE IF ch = "C"
         THEN ParseCsvFrom(t, i + 1, recs, Append(rec, field), <<>>, "start")
         ELSE IF ch \in {"LF", "CR"}
         THEN LET skip == IF ch = "CR" /\ i < Len(t) /\ t[i + 1] = "LF" THEN 2 ELSE 1
              IN  ParseCsvFrom(t, i + skip, Append(recs, Append(rec, field)), <<>>, <<>>, "start")
         ELSE ParseCsvFrom(t, i + 1, recs, rec, Append(field, ch), "plain")

\* The records read from a file, after the byte order mark
ParseCsv(t) ==
    ParseCsvFrom(IF t # <<>> /\ t[1] = "BOM" THEN Tail(t) ELSE t, 1, <<>>, <<>>, <<>>, "start")

\* The column names and the cell strings of a result
CsvExpected(cols, list) ==
    <<cols>> \o [i \in DOMAIN list |-> [j \in DOMAIN list[i] |-> CellString(list[i][j])]]

\* C16 as stated: an export writes the header and one record per row, such that
\* a CSV reader recovers every column name and every cell string (null as the
\* empty string); with no columns or no rows nothing is exported.
C16_CsvLossless ==
    /\ csvOut # NoCsv => ParseCsv(csvOut) = CsvExpected(csvColumns, csvRows)
    /\ csvAlert => csvOut = NoCsv /\ (Len(csvColumns) = 0 \/ Len(csvRows) = 0)

-----------------------------------------------------------------------------
(* Chatpod: stream failures and uploads (part_002)                          *)

\* The parts that neither carry an error nor a delta
Ignored(p) == ParseEvent(p).kind \in {"skip", "done", "bad", "none"}

\* C17: in a step that processes stream parts, the call goes on reading, no
\* message other than the one at aiIndex changes, and the content at aiIndex
\* becomes what the error and delta events among the parts make of it, in
\* order: a part without "data:", the "[DONE]" marker and a payload that is not
\* valid JSON change nothing and do not keep later parts from being applied; an
\* event that carries an error appends "[error] <error>", after a newline when
\* the content is not empty, and nothing else.
C17_FailuresAbsorbed ==
    [][\A s \in Reading : \A t \in sends' :
          (t.id = s.id /\ Len(t.seen) > Len(s.seen))
             => LET new == SubSeq(t.seen, Len(s.seen) + 1, Len(t.seen))
                    effective == SelectSeq(new, LAMBDA p : ~Ignored(p))
                IN  /\ t.how = "read"
                    /\ Len(messages') = Len(messages)
                    /\ \A i \in DOMAIN messages :
                          IF i = s.aiIndex
                          THEN /\ messages'[i].content
                                     = TextsFrom(messages[i].content, effective)
                               /\ messages'[i].role = messages[i].role
                          ELSE messages'[i] = messages[i]
                    /\ effective = <<>> => messages' = messages]_vars

\* C17 witness: a call has processed a payload that is not valid JSON and then
\* an error event, and goes on reading with the error line as its whole text
C17_Witness ==
    \E s \in Reading :
        /\ Len(s.seen) = 2
        /\ ParseEvent(s.seen[1]).kind = "bad"
        /\ ParseEvent(s.seen[2]).kind = "error"
        /\ PlaceholderAt(messages, s.id) = {s.aiIndex}
        /\ messages[s.aiIndex].content = <<"[error] ", "x">>

\* The info messages of the files of call u that are displayed, in list order
InfoOf(u) ==
    SelectSeq(messages, LAMBDA msg : \E i \in DOMAIN u.files : msg = InfoMessage(u.files[i]))

\* The files of call u whose upload succeeded, in file order, as info messages
SucceededOf(u) ==
    LET done == SubSeq(u.files, 1, Len(u.results))
        idx == SelectSeq([i \in DOMAIN done |-> i], LAMBDA i : u.results[i] = "ok")
    IN  [k \in DOMAIN idx |-> InfoMessage(done[idx[k]])]

RECURSIVE IsSubsequence(_, _)
IsSubsequence(a, b) ==
    IF a = <<>> THEN TRUE
    ELSE IF b = <<>> THEN FALSE
    ELSE IF Head(a) = Head(b) THEN IsSubsequence(Tail(a), Tail(b))
    ELSE IsSubsequence(a, Tail(b))

\* What holds of the uploads in every state
UploadsInOrder ==
    \A u \in uploads :
        /\ u.pos = Len(u.results) + 1
        /\ u.pos <= Len(u.files) + 1
        /\ u.sid # 0
        /\ IsSubsequence(InfoOf(u), SucceededOf(u))

\* One step of the uploads
UploadStep ==
    /\ \A u \in uploads :
          \E v \in uploads' :
              /\ v.id = u.id /\ v.files = u.files /\ v.sid = u.sid
              /\ v.pos \in {u.pos, u.pos + 1}
              /\ v.pos = u.pos + 1 =>
                    /\ u.pos <= Len(u.files)
                    /\ messages' = IF Last(v.results) = "ok"
                                   THEN Append(messages, InfoMessage(u.files[u.pos]))
                                   ELSE messages
    /\ \A v \in uploads' :
          (\A u \in uploads : u.id # v.id) => (sessionId # 0 /\ v.pos = 1 /\ v.sid = sessionId)
    /\ (sessionId = 0 /\ chatWork' < chatWork /\ nSends' = nSends /\ sends' = sends)
          => uploads' = uploads

\* C18: a call of uploadFiles has one request in flight at a time and takes
\* its files in the given order, going on after a failed upload; without a
\* session no call sends anything; the answer to a successful upload appends
\* exactly one info message, for that file, to the end of the list, and a
\* failed one appends nothing, so the displayed info messages of a call stand
\* in file order.
C18_UploadsSequential == []UploadsInOrder /\ [][UploadStep]_vars

\* C18 witness: a call with two files has gone on after its first upload
\* failed, and the info message of the second file is the last message
C18_Witness ==
    \E u \in uploads :
        /\ Len(u.files) = 2
        /\ u.results = <<"failed", "ok">>
        /\ messages # <<>>
        /\ Last(messages) = InfoMessage(u.files[2])

-----------------------------------------------------------------------------
(* TroubleSearch: feedback on a case                                        *)
(* (src/frontend/src/pages/TroubleSearch.tsx 80-99, 360-378)                *)

\* Most feedback requests in flight at a time
MaxFeedback == 2

\* What window.prompt returns: null (cancelled) or the text typed
PromptNull == [null |-> TRUE, text |-> <<>>]
PromptText(t) == [null |-> FALSE, text |-> t]

PromptInputs ==
    { PromptNull, PromptText(<<>>), PromptText(<<"0">>), PromptText(<<"2">>),
      PromptText(<<"1", "2">>), PromptText(<<"SP", "2">>), PromptText(<<"SP">>),
      PromptText(<<"x">>), PromptText(<<"2", "x">>) }

\* JavaScript values of the hours: undefined, null, NaN or a number
JsUndefined == [k |-> "undefined", n |-> 0]
JsNull == [k |-> "null", n |-> 0]
JsNaN == [k |-> "nan", n |-> 0]
JsNum(n) == [k |-> "num", n |-> n]

Digits == {"0", "1", "2"}

DigitValue(d) == IF d = "0" THEN 0 ELSE IF d = "1" THEN 1 ELSE 2

RECURSIVE DecimalValue(_, _)
DecimalValue(acc, t) ==
    IF t = <<>> THEN acc ELSE DecimalValue(acc * 10 + DigitValue(Head(t)), Tail(t))

\* Number(input) for a string: white space is trimmed, the empty string is 0
NumberOf(t) ==
    LET body == Trim(t) IN
    IF body = <<>> THEN JsNum(0)
    ELSE IF \A i \in DOMAIN body : body[i] \in Digits THEN JsNum(DecimalValue(0, body))
    ELSE JsNaN

\* a falsy number: 0 or NaN (and undefined)
FalsyHours(h) == h.k \in {"undefined", "nan"} \/ (h.k = "num" /\ h.n = 0)

\* const hours = input ? Number(input) : undefined (367)
HoursOf(typed) ==
    IF typed.null \/ typed.text = <<>> THEN JsUndefined ELSE NumberOf(typed.text)

\* isNaN(hours || NaN) ? undefined : hours (368)
SolveHoursArg(hours) == IF FalsyHours(hours) THEN JsUndefined ELSE hours

\* solveHours ?? null (90)
OrJsNull(v) == IF v.k \in {"undefined", "null"} THEN JsNull ELSE v

NoFeedback == [query |-> <<>>, case_id |-> "none", helpful |-> FALSE, solve_hours |-> JsNull]

FbInit ==
    /\ feedbackBody = NoFeedback
    /\ fbInput = PromptNull
    /\ fbReqs = 0
    /\ fbAlert = ""

\* sendFeedback up to the await (80-92)
SendFeedback(rec, helpful, solveHours) ==
    /\ fbReqs < MaxFeedback
    /\ fbReqs' = fbReqs + 1
    /\ feedbackBody' = [query |-> query, case_id |-> CaseId(rec), helpful |-> helpful,
                        solve_hours |-> OrJsNull(solveHours)]
    /\ UNCHANGED fbAlert

\* The helpful button (360-372)
HelpfulClick(rec, typed) ==
    /\ fbInput' = typed
    /\ SendFeedback(rec, TRUE, SolveHoursArg(HoursOf(typed)))

\* The not helpful button (373-378)
NotHelpfulClick(rec) ==
    /\ fbInput' = PromptNull
    /\ SendFeedback(rec, FALSE, JsUndefined)

\* sendFeedback after the response (93-98)
FeedbackAnswered(ok) ==
    /\ fbReqs > 0
    /\ fbReqs' = fbReqs - 1
    /\ fbAlert' = IF ok THEN "sent" ELSE "failed"
    /\ UNCHANGED <<feedbackBody, fbInput>>

FbNext ==
    \/ (\E q \in Queries : SetQuery(q)) /\ UNCHANGED fbVars
    \/ HandleSearch /\ UNCHANGED fbVars
    \/ (\E r \in tsSearches : \E found \in {<<>>, TroubleRecords} : SearchOk(r, found))
          /\ UNCHANGED fbVars
    \/ (\E r \in tsSearches : SearchFailed(r)) /\ UNCHANGED fbVars
    \/ (\E i \in DOMAIN results : \E typed \in PromptInputs : HelpfulClick(results[i], typed))
          /\ UNCHANGED tsVars
    \/ (\E i \in DOMAIN results : NotHelpfulClick(results[i])) /\ UNCHANGED tsVars
    \/ (\E ok \in BOOLEAN : FeedbackAnswered(ok)) /\ UNCHANGED tsVars

\* C20 as stated: the feedback of a helpful case carries as solve_hours the
\* number typed into the prompt, 0 included, and null when the prompt was
\* cancelled, left empty or holds no number; that of a case that was not
\* helpful carries null; case_id is the id of the record, or its
\* internal_index when it has no id.
C20_SolveHoursAsTyped ==
    feedbackBody # NoFeedback
        => /\ feedbackBody.solve_hours
                 = IF ~feedbackBody.helpful \/ fbInput.null \/ fbInput.text = <<>>
                      \/ NumberOf(fbInput.text) = JsNaN
                   THEN JsNull
                   ELSE NumberOf(fbInput.text)
           /\ \E i \in DOMAIN TroubleRecords :
                 feedbackBody.case_id
                     = IF TroubleRecords[i].id # "null" THEN TroubleRecords[i].id
                       ELSE TroubleRecords[i].internal_index

-----------------------------------------------------------------------------
(* OracleNlqPage: drag-and-drop reordering (part_001 288-306)               *)

\* A list without its element at position i
RemoveAt(list, i) == SubSeq(list, 1, i - 1) \o SubSeq(list, i + 1, Len(list))

\* C21 as stated: a drop that is carried out takes the preset at the recorded
\* drag-start index and puts it at a position of the list, the other presets
\* keeping their relative order, so the new list has the same length and the
\* same elements as the old one.
C21_DropIsPureMove ==
    [][(dragIndexRef # 0 /\ dragIndexRef' = 0 /\ nlqMounted')
          => /\ Len(presets') = Len(presets)
             /\ dragIndexRef \in DOMAIN presets
             /\ \E to \in DOMAIN presets' :
                   /\ presets'[to] = presets[dragIndexRef]
                   /\ RemoveAt(presets', to) = RemoveAt(presets, dragIndexRef)]_vars

-----------------------------------------------------------------------------
(* EduDemo: playback comes to an end                                        *)
(* (src/frontend/src/pages/EduDemo.tsx 86-149)                              *)

\* Play pressed while nothing plays
PlayFromRest == ~playing /\ HandlePlay

\* The steps of a run in which the server answers the scenario request, the
\* user never resets and never restarts a playback that is under way
EduFairNext ==
    \/ \E sc \in Scenarios : ScenarioLoaded(sc)
    \/ PlaybackEffect
    \/ TimerFires
    \/ PlayFromRest
    \/ HandlePause
    \/ HandleResume
    \/ \E label \in {"fast", "normal", "slow"} : SetSpeedLabel(label)

\* The variables of the other pages
EduOthers ==
    <<chatVars, nlqVars, presetVars, tsVars, taVars, loginVars, fjVars, licVars, tableVars,
      csvVars, fbVars, clothVars>>

\* The scenario has been returned and a playback is under way
PlaybackStarted == playing /\ ~scenarioReq

\* Every item is displayed and playback has ended
PlaybackEnded ==
    /\ ~playing
    /\ ~paused
    /\ step = Len(scenario)
    /\ RealMessages = [i \in 1..Len(scenario) |-> AsMessage(scenario[i])]

\* C22 as stated: once the scenario has been returned, empty or not, and Play
\* was pressed, every scenario item is eventually displayed and playback ends
\* with playing and paused both false, in every run in which the demo is not
\* reset, a pause is followed by a resume, and effects and timeouts run.
C22_PlaybackTerminates == PlaybackStarted ~> PlaybackEnded

-----------------------------------------------------------------------------
(* ClothingPage: weather summary and clothing advice (src/unnamed/part_004) *)

\* Most runWeather calls of one run
MaxWeatherRuns == 2

Destinations == {<<>>, <<"SP">>, <<"A">>, <<"B">>}

\* A weather result: the destination asked for and the number of the call
\* that fetched it (data of the answer)
NoWx == [run |-> 0, dest |-> <<>>]

\* An advice text: the weather result in the body of its request, and
\* whether the text is ""
NoAdvice == [from |-> NoWx, blank |-> TRUE]

\* A request in flight: its kind and the weather data in its body
NoWxReq == [kind |-> "none", run |-> 0, dest |-> <<>>]

ClothInit ==
    /\ destination = <<>>
    /\ wx = NoWx
    /\ wxLoading = FALSE
    /\ wxError = ""
    /\ adviceQuick = NoAdvice
    /\ adviceFull = NoAdvice
    /\ adviceLoading = FALSE
    /\ wxReq = NoWxReq
    /\ fullReq = NoWxReq
    /\ wxRuns = 0

\* destination input onChange
SetDestination(d) ==
    /\ destination # d
    /\ destination' = d
    /\ UNCHANGED <<wx, wxLoading, wxError, adviceQuick, adviceFull, adviceLoading, wxReq,
                   fullReq, wxRuns>>

\* canRunWeather (112)
canRunWeather == Trim(destination) # <<>> /\ ~wxLoading

\* runWeather up to the first fetch (45-57)
RunWeather ==
    /\ canRunWeather
    /\ wxRuns < MaxWeatherRuns
    /\ wxRuns' = wxRuns + 1
    /\ wxLoading' = TRUE
    /\ wxError' = ""
    /\ wx' = NoWx
    /\ adviceQuick' = NoAdvice
    /\ adviceFull' = NoAdvice
    /\ wxReq' = [kind |-> "weather", run |-> wxRuns + 1, dest |-> destination]
    /\ UNCHANGED <<destination, adviceLoading, fullReq>>

\* runWeather: the weather answer is OK; the quick advice is requested (64-76)
WeatherOk ==
    /\ wxReq.kind = "weather"
    /\ wx' = [run |-> wxReq.run, dest |-> wxReq.dest]
    /\ wxReq' = [wxReq EXCEPT !.kind = "quick"]
    /\ UNCHANGED <<destination, wxLoading, wxError, adviceQuick, adviceFull, adviceLoading,
                   fullReq, wxRuns>>

\* runWeather: a fetch rejected, the weather answer is not OK, or a body is
\* not JSON (59-62, 81-85)
WeatherFailed ==
    /\ wxReq.kind \in {"weather", "quick"}
    /\ wxError' = "error"
    /\ wxLoading' = FALSE
    /\ wxReq' = NoWxReq
    /\ UNCHANGED <<destination, wx, adviceQuick, adviceFull, adviceLoading, fullReq, wxRuns>>

\* adv.markdown ?? "" of the answer to a request built from the weather of req
AdviceOf(req, blank) ==
    IF blank THEN NoAdvice ELSE [from |-> [run |-> req.run, dest |-> req.dest], blank |-> FALSE]

\* runWeather: the quick advice answer is OK (77-80, 83-85)
QuickOk(blank) ==
    /\ wxReq.kind = "quick"
    /\ adviceQuick' = AdviceOf(wxReq, blank)
    /\ wxLoading' = FALSE
    /\ wxReq' = NoWxReq
    /\ UNCHANGED <<destination, wx, wxError, adviceFull, adviceLoading, fullReq, wxRuns>>

\* runWeather: the quick advice answer is not OK (77, 83-85)
QuickNotOk ==
    /\ wxReq.kind = "quick"
    /\ wxLoading' = FALSE
    /\ wxReq' = NoWxReq
    /\ UNCHANGED <<destination, wx, wxError, adviceQuick, adviceFull, adviceLoading, fullReq,
                   wxRuns>>

\* runAdviceFull up to the fetch (88-100); the button is shown with wx and
\* disabled while adviceLoading
RunAdviceFull ==
    /\ wx # NoWx
    /\ ~adviceLoading
    /\ adviceLoading' = TRUE
    /\ fullReq' = [kind |-> "full", run |-> wx.run, dest |-> wx.dest]
    /\ UNCHANGED <<destination, wx, wxLoading, wxError, adviceQuick, adviceFull, wxReq, wxRuns>>

\* runAdviceFull: the answer is OK (102-103, 107-109)
FullOk(blank) ==
    /\ fullReq.kind = "full"
    /\ adviceFull' = AdviceOf(fullReq, blank)
    /\ adviceLoading' = FALSE
    /\ fullReq' = NoWxReq
    /\ UNCHANGED <<destination, wx, wxLoading, wxError, adviceQuick, wxReq, wxRuns>>

\* runAdviceFull: the answer is not OK or the fetch rejected (101, 104-109)
FullFailed ==
    /\ fullReq.kind = "full"
    /\ adviceFull' = NoAdvice
    /\ adviceLoading' = FALSE
    /\ fullReq' = NoWxReq
    /\ UNCHANGED <<destination, wx, wxLoading, wxError, adviceQuick, wxReq, wxRuns>>

ClothNext ==
    \/ \E d \in Destinations : SetDestination(d)
    \/ RunWeather
    \/ WeatherOk
    \/ WeatherFailed
    \/ \E blank \in BOOLEAN : QuickOk(blank)
    \/ QuickNotOk
    \/ RunAdviceFull
    \/ \E blank \in BOOLEAN : FullOk(blank)
    \/ FullFailed

\* The advice block is rendered inside {wx && ...} (164-275): an advice text
\* is displayed when wx is set and the text is not empty (247, 267)
AdviceShown(advice) == wx # NoWx /\ ~advice.blank

\* C23 as stated: runWeather clears the weather result and both advice texts
\* before it fetches, and a quick or full advice text that is displayed was
\* computed from the weather result that is displayed.
C23_AdviceOfShownWeather ==
    /\ [](/\ AdviceShown(adviceQuick) => adviceQuick.from = wx
          /\ AdviceShown(adviceFull) => adviceFull.from = wx)
    /\ [][wxRuns' # wxRuns
             => wx' = NoWx /\ adviceQuick' = NoAdvice /\ adviceFull' = NoAdvice]_vars

\* The quick advice alone: it is fetched inside runWeather, which the button
\* serialises, so a displayed quick advice is of the displayed weather
QuickAdviceOfShownWeather ==
    /\ [](AdviceShown(adviceQuick) => adviceQuick.from = wx)
    /\ [][wxRuns' # wxRuns
             => wx' = NoWx /\ adviceQuick' = NoAdvice /\ adviceFull' = NoAdvice]_vars

-----------------------------------------------------------------------------
Init == ChatInit /\ NlqInit /\ PresetInit /\ TsInit /\ TaInit /\ LoginInit /\ FjInit /\ EduInit /\ LicInit /\ TableInit /\ CsvInit /\ FbInit /\ ClothInit

SpecChat == Init /\ [][ChatNext /\ UNCHANGED <<nlqVars, presetVars, tsVars, taVars, loginVars, fjVars, eduVars, licVars, tableVars, csvVars, fbVars, clothVars>>]_vars

SpecNlq == Init /\ [][NlqNext /\ UNCHANGED <<chatVars, tsVars, taVars, loginVars, fjVars, eduVars, licVars, tableVars, csvVars, fbVars, clothVars>>]_vars

SpecPresets == Init /\ [][PresetNext /\ UNCHANGED <<chatVars, nlqVars, tsVars, taVars, loginVars, fjVars, eduVars, licVars, tableVars, csvVars, fbVars, clothVars>>]_vars

SpecTrouble == Init /\ [][TsNext /\ UNCHANGED <<chatVars, nlqVars, presetVars, taVars, loginVars, fjVars, eduVars, licVars, tableVars, csvVars, fbVars, clothVars>>]_vars

SpecApproval ==
    Init /\ [][TaNext /\ UNCHANGED <<chatVars, nlqVars, presetVars, tsVars, loginVars, fjVars, eduVars, licVars, tableVars, csvVars, fbVars, clothVars>>]_vars

SpecLogin ==
    Init /\ [][LoginNext /\ UNCHANGED <<chatVars, nlqVars, presetVars, tsVars, taVars, fjVars, eduVars, licVars, tableVars, csvVars, fbVars, clothVars>>]_vars

SpecFileJson ==
    Init /\ [][FjNext /\ UNCHANGED <<chatVars, nlqVars, presetVars, tsVars, taVars, loginVars, eduVars, licVars, tableVars, csvVars, fbVars, clothVars>>]_vars

SpecEdu ==
    Init /\ [][EduNext /\ UNCHANGED <<chatVars, nlqVars, presetVars, tsVars, taVars, loginVars, fjVars, licVars, tableVars, csvVars, fbVars, clothVars>>]_vars

SpecLicense ==
    Init /\ [][LicNext /\ UNCHANGED <<chatVars, nlqVars, presetVars, tsVars, taVars, loginVars, fjVars, eduVars, tableVars, csvVars, fbVars, clothVars>>]_vars

SpecTable ==
    Init /\ [][TableNext /\ UNCHANGED <<chatVars, nlqVars, presetVars, tsVars, taVars, loginVars, fjVars, eduVars, licVars, csvVars, fbVars, clothVars>>]_vars

SpecCsv ==
    Init /\ [][CsvNext /\ UNCHANGED <<chatVars, nlqVars, presetVars, tsVars, taVars, loginVars, fjVars, eduVars, licVars, tableVars, fbVars, clothVars>>]_vars

SpecFeedback ==
    Init /\ [][FbNext /\ UNCHANGED <<chatVars, nlqVars, presetVars, taVars, loginVars, fjVars, eduVars, licVars, tableVars, csvVars, clothVars>>]_vars

\* SpecEdu without reset and restart, with the scheduling the browser gives:
\* a pending effect runs, a timeout that is set again and again fires, the
\* scenario request is answered, and a demo that can be resumed again and
\* again is resumed
SpecEduFair ==
    /\ Init
    /\ [][EduFairNext /\ UNCHANGED EduOthers]_vars
    /\ WF_vars(PlaybackEffect /\ UNCHANGED EduOthers)
    /\ SF_vars(TimerFires /\ UNCHANGED EduOthers)
    /\ SF_vars(HandleResume /\ UNCHANGED EduOthers)
    /\ WF_vars((\E sc \in Scenarios : ScenarioLoaded(sc)) /\ UNCHANGED EduOthers)

SpecClothing ==
    Init /\ [][ClothNext /\ UNCHANGED <<chatVars, nlqVars, presetVars, tsVars, taVars, loginVars, fjVars, eduVars, licVars, tableVars, csvVars, fbVars>>]_vars

=============================================================================
